---- MODULE Spec2Model ----
(***************************************************************************)
(* Conversation turn engine of the medication reminder system:             *)
(* router.post('/handle-speech') of src/unnamed/part_007 (lines 908-1165), *)
(* the in-memory callHistories map it reads and writes, and the            *)
(* generateLlmResponse collaborator of                                     *)
(* src/src/services/elevenLabsService.js (lines 234-362).                  *)
(*                                                                         *)
(* A text is a sequence of tokens: a word, a single space, or the literal  *)
(* HANGUPNOW.  A fixed phrase of the source is one word token.             *)
(***************************************************************************)
EXTENDS Integers, Sequences, FiniteSets, TLC

\* ------------------------------------------------------------------------
\* Program constants
\* ------------------------------------------------------------------------
MAX_RETRIES == 2
MAX_CONVERSATION_TURNS == 10

HANGUPNOW == "HANGUPNOW"
SP == " "

FINAL_CLOSING_MESSAGE == <<"We seem to have reached the end of our time">>
RETRY_PROMPT == <<"Sorry, I didn't hear anything">>
RETRY_FALLBACK == <<"If you're finished speaking you can hang up now">>
NEXT_TURN_FALLBACK == <<"Is there anything else I can help with?">>
GOODBYE_FALLBACK == <<"Okay. Thank you, goodbye.">>
ISSUE_FALLBACK == <<"Sorry, I encountered an issue processing that request">>
SAFEGUARD_MESSAGE == <<"An unexpected error occurred. Goodbye.">>
APOLOGY_MESSAGE == <<"I encountered an unexpected problem. Apologies.">>
NO_SPEECH_DETECTED == <<"[No speech detected]">>
MAX_RETRIES_NO_SPEECH == <<"[Max retries - No speech detected]">>
REFUSAL_MSG == "I can only provide basic information"
CONFIG_ERROR_TEXT == <<"An internal configuration error occurred.", SP, HANGUPNOW>>
INTERPRET_ERROR_TEXT == <<"I encountered an issue interpreting the response.", SP, HANGUPNOW>>
UNKNOWN_SID_HANDLE_SPEECH == "unknown_sid_handle_speech"

\* ------------------------------------------------------------------------
\* Bounds of the explored environment
\* ------------------------------------------------------------------------
\* exchanges in the stored history of one call session that are not the
\* plain one (speech heard, non-blank reply): a turn completed by silence
\* after the retries, or a whitespace-only reply of the model
MaxUnusualTurns == 1

\* ------------------------------------------------------------------------
\* String operations of the source, on token sequences
\* ------------------------------------------------------------------------
\* String.prototype.includes('HANGUPNOW')
Includes(t) == \E i \in 1..Len(t) : t[i] = HANGUPNOW

FirstIndex(t) == CHOOSE i \in 1..Len(t) :
                    t[i] = HANGUPNOW /\ \A j \in 1..(i-1) : t[j] # HANGUPNOW

\* String.prototype.replace('HANGUPNOW', ''): a string pattern replaces the
\* first occurrence only
ReplaceFirst(t) == IF Includes(t)
                   THEN SubSeq(t, 1, FirstIndex(t) - 1) \o SubSeq(t, FirstIndex(t) + 1, Len(t))
                   ELSE t

\* String.prototype.trim()
Trim(t) == LET idx == {i \in 1..Len(t) : t[i] # SP}
           IN IF idx = {} THEN <<>>
              ELSE LET a == CHOOSE i \in idx : \A j \in idx : i <= j
                       b == CHOOSE i \in idx : \A j \in idx : i >= j
                   IN SubSeq(t, a, b)

\* ------------------------------------------------------------------------
\* TwiML documents: the sequence of verbs of a VoiceResponse
\* ------------------------------------------------------------------------
Say(t) == [verb |-> "Say", text |-> t, retry |-> 0]
Play(url) == [verb |-> "Play", text |-> url, retry |-> 0]
\* <Gather action="/handle-speech?retry=n" actionOnEmptyResult="true">
Gather(n) == [verb |-> "Gather", text |-> <<>>, retry |-> n]
Hangup == [verb |-> "Hangup", text |-> <<>>, retry |-> 0]

\* the audio reference returned by the speech-synthesis collaborator for a
\* text: the public URL of the file that holds the audio of that text
AudioUrl(t) == <<"tts">> \o t

\* ------------------------------------------------------------------------
\* Generative-text collaborator (generateLlmResponse)
\* ------------------------------------------------------------------------
UserRecord(t) == [role |-> "user", text |-> t]
ModelRecord(t) == [role |-> "model", text |-> t]

\* texts the model can produce (result.candidates[0].content.parts[0].text)
RawTexts == { <<"ok">>, <<SP>>, <<HANGUPNOW>>, <<"ok", SP, HANGUPNOW>>,
              <<HANGUPNOW, SP, "ok">>, <<HANGUPNOW, SP, HANGUPNOW>> }

\* outcomes of chat.sendMessage: a text, a blocked candidate, a candidate
\* without text, or an exception
SdkResults == { [kind |-> "text", raw |-> t] : t \in RawTexts }
              \cup { [kind |-> k, raw |-> <<>>] : k \in {"blocked", "notext", "throws"} }

\* a chat history that keeps the message sent but not the content received
getHistory_UserOnly(history, message, raw) ==
    history \o << UserRecord(message) >>

\* chat.getHistory(): the history given to ai.chats.create followed by the
\* message sent and the model content received
getHistory(history, message, raw) ==
    history \o << UserRecord(message), ModelRecord(raw) >>

\* the fallback of the catch block without the hangup sentinel
generateLlmResponse_NoSentinel(speechText, history, apiKey, sdk) ==
    LET message == IF speechText = <<>> THEN NO_SPEECH_DETECTED ELSE speechText
        refusal == << REFUSAL_MSG, SP, HANGUPNOW >>
    IN IF ~apiKey
       THEN [ llmText |-> CONFIG_ERROR_TEXT,
              updatedHistory |-> history \o << UserRecord(message), ModelRecord(CONFIG_ERROR_TEXT) >> ]
       ELSE IF sdk.kind = "throws"
       THEN [ llmText |-> << REFUSAL_MSG >>,
              updatedHistory |-> history \o << UserRecord(message), ModelRecord(<< REFUSAL_MSG >>) >> ]
       ELSE [ llmText |-> Trim(IF sdk.kind = "text" THEN sdk.raw
                               ELSE IF sdk.kind = "blocked" THEN refusal
                               ELSE INTERPRET_ERROR_TEXT),
              updatedHistory |-> getHistory(history, message, sdk.raw) ]

\* missing API key, exception of the SDK, or a result of chat.sendMessage
generateLlmResponse(speechText, history, apiKey, sdk) ==
    LET message == IF speechText = <<>> THEN NO_SPEECH_DETECTED ELSE speechText
        refusal == << REFUSAL_MSG, SP, HANGUPNOW >>
    IN IF ~apiKey
       THEN [ llmText |-> CONFIG_ERROR_TEXT,
              updatedHistory |-> history \o << UserRecord(message), ModelRecord(CONFIG_ERROR_TEXT) >> ]
       ELSE IF sdk.kind = "throws"
       THEN [ llmText |-> refusal,
              updatedHistory |-> history \o << UserRecord(message), ModelRecord(refusal) >> ]
       ELSE [ llmText |-> Trim(IF sdk.kind = "text" THEN sdk.raw
                               ELSE IF sdk.kind = "blocked" THEN refusal
                               ELSE INTERPRET_ERROR_TEXT),
              updatedHistory |-> getHistory(history, message, sdk.raw) ]

\* ------------------------------------------------------------------------
\* State
\* ------------------------------------------------------------------------
VARIABLES
    API_KEY,        \* TRUE iff process.env.GOOGLE_API_KEY is set
    callHistories,  \* the Map CallSid -> {history}: a function on the keys present
    inv,            \* the /handle-speech invocations: locals and position
    gatherRetry,    \* telephony layer: retry parameter of the action URL of
                    \* the <Gather> it is executing for each call
    completed,      \* per call session: turns completed with a continue directive
    turnLog,        \* per call: the invocations answered in the current turn
    bridge,         \* the media-stream connections handled by
                    \* handleWebSocketConnection: closure state and pending steps
    hooks           \* the /answered, /incoming-call and /call-status
                    \* invocations: locals, position and response

vars == << API_KEY, callHistories, inv, gatherRetry, completed, turnLog, bridge, hooks >>

CallSids == {"CA1"}
Speeches == { <<>>, <<"yes">> }
TtsOutcomes == {"ok", "ElevenLabsApiError", "InternalServerError"}
TtsErrors == {"ElevenLabsApiError", "InternalServerError"}

Idle == [ pc |-> "idle", CallSid |-> "", SpeechResult |-> <<>>, currentRetry |-> 0,
          currentHistory |-> <<>>, turnNumber |-> 0, speechResult |-> <<>>,
          llmText |-> <<>>, updatedHistory |-> <<>>, spokenText |-> <<>>,
          hangup |-> FALSE, ttsAudioUrl |-> <<>>, ttsError |-> "none",
          twiml |-> <<>>, error |-> "none", sent |-> <<>>,
          llmCalls |-> 0, ttsCalls |-> 0, logs |-> <<>>, errs |-> <<>>,
          llmOutcome |-> "none",
          prevAction |-> "none", prevFailed |-> FALSE, prevTurn |-> 0 ]

\* callHistories.get(CallSid) || { history: [] }
HistoryOf(map, sid) == IF sid \in DOMAIN map THEN map[sid].history ELSE <<>>

\* a store that appends the last exchange of the history it is given to the
\* history stored at that moment
MapSet_Merge(map, sid, h) == [ k \in (DOMAIN map) \cup {sid} |->
                            IF k = sid
                            THEN [history |-> (IF sid \in DOMAIN map THEN map[sid].history
                                               ELSE <<>>) \o SubSeq(h, Len(h) - 1, Len(h))]
                            ELSE map[k] ]

\* a store that drops the last record of the history it is given
MapSet_DropLast(map, sid, h) == [ k \in (DOMAIN map) \cup {sid} |->
                            IF k = sid THEN [history |-> SubSeq(h, 1, Len(h) - 1)]
                            ELSE map[k] ]

\* callHistories.set(CallSid, { history })
MapSet(map, sid, h) == [ k \in (DOMAIN map) \cup {sid} |->
                            IF k = sid THEN [history |-> h] ELSE map[k] ]

\* a delete that leaves the entry in place
MapDelete_Keep(map, sid) == map

\* a delete that empties the whole map
MapDelete_All(map, sid) == << >>

\* callHistories.delete(CallSid)
MapDelete(map, sid) == [ k \in (DOMAIN map) \ {sid} |-> map[k] ]

\* the turn number counted in records instead of exchanges
TurnNumber_PerRecord(history) == Len(history) + 1

\* Math.floor(currentHistory.length / 2) + 1
TurnNumber(history) == (Len(history) \div 2) + 1

\* the error record always keyed by the placeholder
ErrorKey_Placeholder(sid) == UNKNOWN_SID_HANDLE_SPEECH

\* CallSid || 'unknown_sid_handle_speech'
ErrorKey(sid) == IF sid = "" THEN UNKNOWN_SID_HANDLE_SPEECH ELSE sid

\* ------------------------------------------------------------------------
\* Directives: what the telephony layer does with a TwiML document.  It
\* runs the verbs in order; a <Gather> with actionOnEmptyResult always
\* calls its action, so the verbs after it are not run.
\* ------------------------------------------------------------------------
HasGather(doc) == \E i \in 1..Len(doc) : doc[i].verb = "Gather"

GatherOf(doc) == doc[CHOOSE i \in 1..Len(doc) : doc[i].verb = "Gather"]

DirectiveAction(doc) ==
    IF ~HasGather(doc) THEN "terminate"
    ELSE IF GatherOf(doc).retry > 0 THEN "retry" ELSE "continue"

\* the text the caller hears first: said directly, or the text of the audio
SpokenOf(doc) == IF doc[1].verb = "Play" THEN Tail(doc[1].text) ELSE doc[1].text

\* ------------------------------------------------------------------------
\* Steps of router.post('/handle-speech')
\* ------------------------------------------------------------------------
\* logData.speechResult, the utterance handed to the collaborator
Utterance(SpeechResult, currentRetry) ==
    IF SpeechResult = <<>> /\ currentRetry >= MAX_RETRIES THEN MAX_RETRIES_NO_SPEECH
    ELSE IF SpeechResult = <<>> THEN NO_SPEECH_DETECTED
    ELSE SpeechResult

\* the retry test with <= in place of <
RetryBranch_OffByOne(SpeechResult, currentRetry) ==
    SpeechResult = <<>> /\ currentRetry <= MAX_RETRIES

\* the retry test without the test of the speech
RetryBranch_IgnoreSpeech(SpeechResult, currentRetry) ==
    currentRetry < MAX_RETRIES

\* if (!SpeechResult && currentRetry < MAX_RETRIES)
RetryBranch(SpeechResult, currentRetry) ==
    SpeechResult = <<>> /\ currentRetry < MAX_RETRIES

\* the retry document with the retry count not incremented in the action URL
RetryTwiml_SameRetry(nextRetry) ==
    << Say(RETRY_PROMPT), Gather(nextRetry - 1), Say(RETRY_FALLBACK), Hangup >>

RetryTwiml(nextRetry) ==
    << Say(RETRY_PROMPT), Gather(nextRetry), Say(RETRY_FALLBACK), Hangup >>

ErrorTwiml == << Say(APOLOGY_MESSAGE), Hangup >>

\* the turn limit tested with > in place of >=
TerminationDecision_LateLimit(turnNumber, llmText) ==
    IF turnNumber > MAX_CONVERSATION_TURNS
    THEN [ hangup |-> TRUE, spokenText |-> FINAL_CLOSING_MESSAGE ]
    ELSE IF llmText # <<>> /\ Includes(llmText)
    THEN [ hangup |-> TRUE, spokenText |-> Trim(ReplaceFirst(llmText)) ]
    ELSE [ hangup |-> FALSE, spokenText |-> llmText ]

\* the sentinel recognised only when it is the whole text
TerminationDecision_WholeText(turnNumber, llmText) ==
    IF turnNumber >= MAX_CONVERSATION_TURNS
    THEN [ hangup |-> TRUE, spokenText |-> FINAL_CLOSING_MESSAGE ]
    ELSE IF llmText = <<HANGUPNOW>>
    THEN [ hangup |-> TRUE, spokenText |-> Trim(ReplaceFirst(llmText)) ]
    ELSE [ hangup |-> FALSE, spokenText |-> llmText ]

\* the decision without the turn limit
TerminationDecision_NoLimit(turnNumber, llmText) ==
    IF llmText # <<>> /\ Includes(llmText)
    THEN [ hangup |-> TRUE, spokenText |-> Trim(ReplaceFirst(llmText)) ]
    ELSE [ hangup |-> FALSE, spokenText |-> llmText ]

\* turn limit, then hangup sentinel, else continue
TerminationDecision(turnNumber, llmText) ==
    IF turnNumber >= MAX_CONVERSATION_TURNS
    THEN [ hangup |-> TRUE, spokenText |-> FINAL_CLOSING_MESSAGE ]
    ELSE IF llmText # <<>> /\ Includes(llmText)
    THEN [ hangup |-> TRUE, spokenText |-> Trim(ReplaceFirst(llmText)) ]
    ELSE [ hangup |-> FALSE, spokenText |-> llmText ]

\* no substitution for an empty text
EmptyTextFallback_Skip(d, llmText) == d

\* if (!spokenText || spokenText.length === 0)
EmptyTextFallback(d, llmText) ==
    IF d.spokenText = <<>>
    THEN [ hangup |-> d.hangup \/ llmText = <<HANGUPNOW>>,
           spokenText |-> IF d.hangup THEN GOODBYE_FALLBACK ELSE ISSUE_FALLBACK ]
    ELSE d

\* the document without the <Say> fallback: no audio URL ends the call with
\* the safeguard message
ConstructTwiml_NoSayFallback(ttsAudioUrl, spokenText, hangup) ==
    LET first == IF ttsAudioUrl # <<>> THEN Play(ttsAudioUrl)
                 ELSE Say(SAFEGUARD_MESSAGE)
        hang == hangup \/ ttsAudioUrl = <<>>
    IN [ hangup |-> hang,
         twiml |-> IF hang THEN << first, Hangup >>
                   ELSE << first, Gather(0), Say(NEXT_TURN_FALLBACK), Hangup >> ]

\* the <Gather> of the next turn with retry=1 in its action URL
ConstructTwiml_RetryOne(ttsAudioUrl, spokenText, hangup) ==
    LET first == IF ttsAudioUrl # <<>> THEN Play(ttsAudioUrl)
                 ELSE IF spokenText # <<>> THEN Say(spokenText)
                 ELSE Say(SAFEGUARD_MESSAGE)
        hang == hangup \/ (ttsAudioUrl = <<>> /\ spokenText = <<>>)
    IN [ hangup |-> hang,
         twiml |-> IF hang THEN << first, Hangup >>
                   ELSE << first, Gather(1), Say(NEXT_TURN_FALLBACK), Hangup >> ]

\* <Play> or <Say>, then <Hangup> or the <Gather> of the next turn
ConstructTwiml(ttsAudioUrl, spokenText, hangup) ==
    LET first == IF ttsAudioUrl # <<>> THEN Play(ttsAudioUrl)
                 ELSE IF spokenText # <<>> THEN Say(spokenText)
                 ELSE Say(SAFEGUARD_MESSAGE)
        hang == hangup \/ (ttsAudioUrl = <<>> /\ spokenText = <<>>)
    IN [ hangup |-> hang,
         twiml |-> IF hang THEN << first, Hangup >>
                   ELSE << first, Gather(0), Say(NEXT_TURN_FALLBACK), Hangup >> ]

\* entering the catch block: logErrorToFirebase is awaited first
EnterCatch(r, name) == [ r EXCEPT !.pc = "catch_log", !.error = name ]

\* lines 1069-1124: build the document, delete the history on hangup, and
\* await the turn log; a TwiML method that throws leads to the catch block
AfterTts(s, r, twimlThrows) ==
    LET c == ConstructTwiml(r.ttsAudioUrl, r.spokenText, r.hangup)
    IN IF twimlThrows
       THEN /\ inv' = [inv EXCEPT ![s] = EnterCatch(r, "TwimlError")]
            /\ UNCHANGED callHistories
       ELSE /\ inv' = [inv EXCEPT ![s] = [r EXCEPT !.pc = "log", !.twiml = c.twiml,
                                                   !.hangup = c.hangup]]
            /\ callHistories' = IF c.hangup THEN MapDelete(callHistories, r.CallSid)
                                ELSE callHistories

\* the telephony layer receives the document: it hangs up, or runs the
\* <Gather> and will call its action URL
Respond(sid, r, doc) ==
    LET action == DirectiveAction(doc)
        next == IF HasGather(doc) THEN GatherOf(doc).retry ELSE 0
    IN /\ gatherRetry' = [gatherRetry EXCEPT ![sid] = next]
       /\ completed' = [completed EXCEPT ![sid] =
                            IF action = "continue" THEN @ + 1
                            ELSE IF action = "terminate" THEN 0 ELSE @]
       /\ turnLog' = [turnLog EXCEPT ![sid] = Append(@,
                          [ silent |-> r.SpeechResult = <<>>, retry |-> r.currentRetry,
                            action |-> action, next |-> next,
                            utterance |-> r.speechResult, llmCalls |-> r.llmCalls,
                            failed |-> r.error # "none", turnNumber |-> r.turnNumber ])]

\* the user records of turns completed by silence
SilentCount(h) == Cardinality({ i \in 1..Len(h) : h[i] = UserRecord(MAX_RETRIES_NO_SPEECH) })

\* the exchanges (user record, model record) of a stored history that hold a
\* silent turn or a whitespace-only reply
UnusualCount(h) == Cardinality({ k \in 1..(Len(h) \div 2) :
                       \/ h[2 * k - 1] = UserRecord(MAX_RETRIES_NO_SPEECH)
                       \/ (h[2 * k].text # <<>> /\ Trim(h[2 * k].text) = <<>>) })

InFlight(s) == inv[s].pc \notin {"idle", "done"}

\* the last directive the telephony layer received for the call
Last(sid) == IF turnLog[sid] = <<>>
             THEN [ action |-> "none", failed |-> FALSE, turnNumber |-> 0 ]
             ELSE LET e == turnLog[sid][Len(turnLog[sid])]
                  IN [ action |-> e.action, failed |-> e.failed, turnNumber |-> e.turnNumber ]

LastAction(sid) == Last(sid).action

\* lines 909-973 up to the first await; currentRetry is
\* parseInt(req.query.retry || '0', 10)
HandleSpeech(s, sid, SpeechResult, currentRetry, twimlThrows) ==
    LET currentHistory == HistoryOf(callHistories, sid)
        r == [ Idle EXCEPT !.CallSid = sid, !.SpeechResult = SpeechResult,
                           !.currentRetry = currentRetry,
                           !.currentHistory = currentHistory,
                           !.turnNumber = TurnNumber(currentHistory),
                           !.speechResult = Utterance(SpeechResult, currentRetry),
                           !.prevAction = Last(sid).action,
                           !.prevFailed = Last(sid).failed,
                           !.prevTurn = Last(sid).turnNumber ]
    IN /\ ~InFlight(s)
       /\ (SpeechResult = <<>> /\ currentRetry >= MAX_RETRIES)
             => UnusualCount(currentHistory) < MaxUnusualTurns
       /\ twimlThrows => RetryBranch(SpeechResult, currentRetry)
       /\ inv' = [inv EXCEPT ![s] =
                    IF RetryBranch(SpeechResult, currentRetry)
                    THEN IF twimlThrows THEN EnterCatch(r, "TwimlError")
                         ELSE [r EXCEPT !.pc = "retry_log",
                                        !.twiml = RetryTwiml(currentRetry + 1)]
                    ELSE [r EXCEPT !.pc = "llm", !.llmCalls = 1]]
       /\ turnLog' = [turnLog EXCEPT ![sid] =
                        IF LastAction(sid) \in {"none", "retry"} THEN @ ELSE <<>>]
       /\ UNCHANGED << bridge, hooks, API_KEY, callHistories, gatherRetry, completed >>

\* the request carries the retry count of the action URL of the <Gather>
\* the telephony layer ran
Enter(s, sid, SpeechResult, twimlThrows) ==
    HandleSpeech(s, sid, SpeechResult, gatherRetry[sid], twimlThrows)

\* the telephony layer calls the action URL one webhook of a call at a
\* time: an invocation starts when no other of the same call is in flight
Deliver(s, sid, SpeechResult, twimlThrows) ==
    /\ \A o \in DOMAIN inv : InFlight(o) => inv[o].CallSid # sid
    /\ Enter(s, sid, SpeechResult, twimlThrows)

\* lines 967-972: the retry log returns (or fails, caught); the retry
\* document is sent
RetryLogged(s, ok) ==
    LET r == inv[s]
    IN /\ r.pc = "retry_log"
       /\ inv' = [inv EXCEPT ![s] = [r EXCEPT !.pc = "done",
                       !.logs = Append(@, [event |-> "handle_speech_retry", ok |-> ok]),
                       !.sent = Append(@, r.twiml)]]
       /\ Respond(r.CallSid, r, r.twiml)
       /\ UNCHANGED << bridge, hooks, API_KEY, callHistories >>

\* synthesis requested without the returned history having been stored
LlmReturn_SynthBeforeStore(s, sdk) ==
    LET r == inv[s]
        g == generateLlmResponse(r.speechResult, r.currentHistory, API_KEY, sdk)
        d == EmptyTextFallback(TerminationDecision(r.turnNumber, g.llmText), g.llmText)
        q == [r EXCEPT !.llmText = g.llmText, !.updatedHistory = g.updatedHistory,
                       !.spokenText = d.spokenText, !.hangup = d.hangup,
                       !.llmOutcome = IF ~API_KEY THEN "nokey" ELSE sdk.kind]
    IN /\ r.pc = "llm"
       /\ (sdk.kind = "text" /\ Trim(sdk.raw) = <<>>)
             => UnusualCount(r.currentHistory) < MaxUnusualTurns
       /\ inv' = [inv EXCEPT ![s] = [q EXCEPT !.pc = "tts", !.ttsCalls = 1]]
       /\ UNCHANGED << bridge, hooks, API_KEY, callHistories, gatherRetry, completed, turnLog >>

\* lines 987-1048: the collaborator returns; the history is stored, the
\* termination decision is taken and synthesis is requested
LlmReturn(s, sdk) ==
    LET r == inv[s]
        g == generateLlmResponse(r.speechResult, r.currentHistory, API_KEY, sdk)
        d == EmptyTextFallback(TerminationDecision(r.turnNumber, g.llmText), g.llmText)
        q == [r EXCEPT !.llmText = g.llmText, !.updatedHistory = g.updatedHistory,
                       !.spokenText = d.spokenText, !.hangup = d.hangup,
                       !.llmOutcome = IF ~API_KEY THEN "nokey" ELSE sdk.kind]
    IN /\ r.pc = "llm"
       /\ (sdk.kind = "text" /\ Trim(sdk.raw) = <<>>)
             => UnusualCount(r.currentHistory) < MaxUnusualTurns
       /\ callHistories' = MapSet(callHistories, r.CallSid, g.updatedHistory)
       /\ inv' = [inv EXCEPT ![s] = [q EXCEPT !.pc = "tts", !.ttsCalls = 1]]
       /\ UNCHANGED << bridge, hooks, API_KEY, gatherRetry, completed, turnLog >>

\* lines 1045-1063: synthesis returns an audio URL, or fails and the error
\* is reported with logErrorToFirebase
TtsReturn(s, outcome, twimlThrows) ==
    LET r == inv[s]
    IN /\ r.pc = "tts"
       /\ IF outcome = "ok"
          THEN AfterTts(s, [r EXCEPT !.ttsAudioUrl = AudioUrl(r.spokenText)], twimlThrows)
          ELSE /\ ~twimlThrows
               /\ inv' = [inv EXCEPT ![s] = [r EXCEPT !.pc = "tts_errlog",
                                                      !.ttsError = outcome,
                                                      !.ttsAudioUrl = <<>>]]
               /\ UNCHANGED callHistories
       /\ UNCHANGED << bridge, hooks, API_KEY, gatherRetry, completed, turnLog >>

\* lines 1061-1063: the report of the synthesis error returns (or fails,
\* caught).  An error record: the key it is stored under, the name of the
\* error, whether it is the critical error of the catch block, and whether
\* the write succeeded
TtsErrorLogged(s, ok, twimlThrows) ==
    LET r == inv[s]
        q == [r EXCEPT !.errs = Append(@, [key |-> r.CallSid, name |-> r.ttsError,
                                               message |-> "tts", ok |-> ok])]
    IN /\ r.pc = "tts_errlog"
       /\ AfterTts(s, q, twimlThrows)
       /\ UNCHANGED << bridge, hooks, API_KEY, gatherRetry, completed, turnLog >>

\* the turn log without its .catch: a failed write reaches the catch block
TurnLogged_FailThrows(s, ok) ==
    LET r == inv[s]
    IN /\ r.pc = "log"
       /\ IF ok
          THEN /\ inv' = [inv EXCEPT ![s] = [r EXCEPT !.pc = "done",
                       !.logs = Append(@, [event |-> "handle_speech_processed", ok |-> ok]),
                       !.sent = Append(@, r.twiml)]]
               /\ Respond(r.CallSid, r, r.twiml)
          ELSE /\ inv' = [inv EXCEPT ![s] = EnterCatch(
                       [r EXCEPT !.logs = Append(@, [event |-> "handle_speech_processed",
                                                     ok |-> ok])], "FirebaseError")]
               /\ UNCHANGED << gatherRetry, completed, turnLog >>
       /\ UNCHANGED << bridge, hooks, API_KEY, callHistories >>

\* lines 1122-1130: the turn log returns (or fails, caught); the document
\* is sent
TurnLogged(s, ok) ==
    LET r == inv[s]
    IN /\ r.pc = "log"
       /\ inv' = [inv EXCEPT ![s] = [r EXCEPT !.pc = "done",
                       !.logs = Append(@, [event |-> "handle_speech_processed", ok |-> ok]),
                       !.sent = Append(@, r.twiml)]]
       /\ Respond(r.CallSid, r, r.twiml)
       /\ UNCHANGED << bridge, hooks, API_KEY, callHistories >>

\* the catch block reporting the error without sending a response
CriticalErrorLogged_NoSend(s, ok) ==
    LET r == inv[s]
    IN /\ r.pc = "catch_log"
       /\ inv' = [inv EXCEPT ![s] = [r EXCEPT !.pc = "done",
                       !.errs = Append(@, [key |-> ErrorKey(r.CallSid),
                                           name |-> "InternalServerError",
                                           message |-> "critical", ok |-> ok])]]
       /\ callHistories' = MapDelete(callHistories, r.CallSid)
       /\ UNCHANGED << bridge, hooks, API_KEY, gatherRetry, completed, turnLog >>

\* the catch block leaving the history entry in place
CriticalErrorLogged_KeepHistory(s, ok) ==
    LET r == inv[s]
    IN /\ r.pc = "catch_log"
       /\ inv' = [inv EXCEPT ![s] = [r EXCEPT !.pc = "done",
                       !.errs = Append(@, [key |-> ErrorKey(r.CallSid),
                                           name |-> "InternalServerError",
                                           message |-> "critical", ok |-> ok]),
                       !.sent = Append(@, ErrorTwiml)]]
       /\ Respond(r.CallSid, r, ErrorTwiml)
       /\ UNCHANGED << bridge, hooks, API_KEY, callHistories >>

\* lines 1138-1163: the report of the critical error returns (or fails,
\* caught); the apology is sent and the history entry deleted
CriticalErrorLogged(s, ok) ==
    LET r == inv[s]
    IN /\ r.pc = "catch_log"
       /\ inv' = [inv EXCEPT ![s] = [r EXCEPT !.pc = "done",
                       !.errs = Append(@, [key |-> ErrorKey(r.CallSid),
                                           name |-> "InternalServerError",
                                           message |-> "critical", ok |-> ok]),
                       !.sent = Append(@, ErrorTwiml)]]
       /\ Respond(r.CallSid, r, ErrorTwiml)
       /\ callHistories' = MapDelete(callHistories, r.CallSid)
       /\ UNCHANGED << bridge, hooks, API_KEY >>

\* ------------------------------------------------------------------------
\* Specification: one webhook at a time per call, the retry count echoed
\* from the last directive
\* ------------------------------------------------------------------------
Init ==
    /\ API_KEY \in BOOLEAN
    /\ callHistories = << >>
    /\ inv = [ s \in {1} |-> Idle ]
    /\ gatherRetry = [ sid \in CallSids |-> 0 ]
    /\ completed = [ sid \in CallSids |-> 0 ]
    /\ turnLog = [ sid \in CallSids |-> <<>> ]
    /\ bridge = << >>
    /\ hooks = << >>

Next ==
    \E s \in DOMAIN inv :
        \/ \E sid \in CallSids, sp \in Speeches, t \in BOOLEAN : Deliver(s, sid, sp, t)
        \/ \E ok \in BOOLEAN : RetryLogged(s, ok)
        \/ \E sdk \in SdkResults : LlmReturn(s, sdk)
        \/ \E o \in TtsOutcomes, t \in BOOLEAN : TtsReturn(s, o, t)
        \/ \E ok \in BOOLEAN, t \in BOOLEAN : TtsErrorLogged(s, ok, t)
        \/ \E ok \in BOOLEAN : TurnLogged(s, ok)
        \/ \E ok \in BOOLEAN : CriticalErrorLogged(s, ok)

Spec == Init /\ [][Next]_vars

\* ------------------------------------------------------------------------
\* Properties of the turn engine
\* ------------------------------------------------------------------------
Act(r) == DirectiveAction(r.sent[1])

Done(r) == r.pc = "done" /\ Len(r.sent) = 1

\* the invocation went through the generation step and no step threw
Generated(r) == Done(r) /\ r.llmCalls = 1 /\ r.error = "none"

\* C1: three invocations in a row with empty speech, the first with retry 0
\* and each next one with the retry count of the previous directive, give a
\* retry directive with count 1, a retry directive with count 2, and then
\* no retry but one generation call with the no-speech utterance; a turn
\* never has more than MAX_RETRIES retry directives.
C1_RetryBound ==
    \A sid \in CallSids :
        LET L == turnLog[sid]
            ok(i) == L[i].silent /\ ~L[i].failed
        IN /\ Len(L) <= MAX_RETRIES + 1
           /\ Cardinality({ i \in 1..Len(L) : L[i].action = "retry" }) <= MAX_RETRIES
           /\ (Len(L) >= 1 /\ L[1].retry = 0 /\ ok(1))
                 => (L[1].action = "retry" /\ L[1].next = 1 /\ L[1].llmCalls = 0)
           /\ (Len(L) >= 2 /\ L[1].retry = 0 /\ ok(1) /\ L[2].retry = L[1].next /\ ok(2))
                 => (L[2].action = "retry" /\ L[2].next = 2 /\ L[2].llmCalls = 0)
           /\ (Len(L) >= 3 /\ L[1].retry = 0 /\ ok(1) /\ L[2].retry = L[1].next /\ ok(2)
                 /\ L[3].retry = L[2].next /\ L[3].silent)
                 => (L[3].retry = MAX_RETRIES /\ L[3].action # "retry"
                     /\ L[3].llmCalls = 1 /\ L[3].utterance = MAX_RETRIES_NO_SPEECH)

C1_Witness ==
    \E sid \in CallSids :
        /\ Len(turnLog[sid]) = 3
        /\ \A i \in 1..3 : turnLog[sid][i].silent
        /\ turnLog[sid][1].action = "retry" /\ turnLog[sid][2].action = "retry"
        /\ turnLog[sid][3].action = "continue"
        /\ turnLog[sid][3].utterance = MAX_RETRIES_NO_SPEECH

\* C2: an invocation that reaches the generation step at turn MAX_TURNS or
\* later (stored history of 18 records or more) answers with a terminate
\* directive whose spoken text is the fixed closing message, whatever the
\* collaborator returned and whether synthesis succeeded or failed.
C2_ForcedTermination ==
    \A s \in DOMAIN inv :
        (Generated(inv[s]) /\ Len(inv[s].currentHistory) >= 2 * (MAX_CONVERSATION_TURNS - 1))
            => /\ inv[s].turnNumber >= MAX_CONVERSATION_TURNS
               /\ Act(inv[s]) = "terminate"
               /\ SpokenOf(inv[s].sent[1]) = FINAL_CLOSING_MESSAGE

C2_Witness ==
    \E s \in DOMAIN inv :
        /\ Generated(inv[s]) /\ inv[s].turnNumber = MAX_CONVERSATION_TURNS
        /\ inv[s].llmText = <<"ok">>
        /\ inv[s].ttsError # "none"
        /\ SpokenOf(inv[s].sent[1]) = FINAL_CLOSING_MESSAGE

\* C3: after a terminate directive for a call the store holds no entry for
\* it, and the next invocation for that call reads an empty history and
\* computes turn 1.
C3_HistoryDeletedOnTerminate ==
    \A s \in DOMAIN inv :
        /\ (Done(inv[s]) /\ Act(inv[s]) = "terminate")
              => inv[s].CallSid \notin DOMAIN callHistories
        /\ (inv[s].pc # "idle" /\ inv[s].prevAction = "terminate")
              => (inv[s].currentHistory = <<>> /\ inv[s].turnNumber = 1)

C3_Witness ==
    \E s \in DOMAIN inv :
        /\ inv[s].pc = "llm" /\ inv[s].prevAction = "terminate" /\ ~inv[s].prevFailed
        /\ inv[s].prevTurn = 3
        /\ inv[s].turnNumber = 1

\* C4: with one webhook of a call at a time and a collaborator that appends
\* one user and one model record, an invocation that follows k turns
\* completed with a continue directive computes turn k+1, however many
\* retry invocations happened; the invocations of one turn all compute the
\* same turn number.
C4_TurnMonotonic ==
    /\ \A s \in DOMAIN inv :
          InFlight(s) => inv[s].turnNumber = completed[inv[s].CallSid] + 1
    /\ \A sid \in CallSids : \A i, j \in 1..Len(turnLog[sid]) :
          turnLog[sid][i].turnNumber = turnLog[sid][j].turnNumber

C4_Witness ==
    \E s \in DOMAIN inv :
        /\ InFlight(s) /\ inv[s].currentRetry = MAX_RETRIES
        /\ completed[inv[s].CallSid] = 3 /\ inv[s].turnNumber = 4
        /\ SilentCount(inv[s].currentHistory) = 1

\* C5: when the text returned by the collaborator contains HANGUPNOW, the
\* spoken text of the resulting terminate directive does not contain it.
C5_SentinelStripped ==
    \A s \in DOMAIN inv :
        (Generated(inv[s]) /\ Includes(inv[s].llmText) /\ Act(inv[s]) = "terminate")
            => ~Includes(SpokenOf(inv[s].sent[1]))

C8_SynthesisFallback ==
    \A s \in DOMAIN inv :
        LET r == inv[s]
            d == EmptyTextFallback(TerminationDecision(r.turnNumber, r.llmText), r.llmText)
        IN /\ r.pc = "tts_errlog" => r.error = "none"
           /\ r.error \notin TtsErrors
           /\ (Done(r) /\ r.ttsError # "none" /\ r.error = "none")
                 => /\ r.sent[1][1] = Say(d.spokenText)
                    /\ Act(r) = IF d.hangup THEN "terminate" ELSE "continue"
                    /\ Tail(r.sent[1]) = IF d.hangup THEN << Hangup >>
                                         ELSE << Gather(0), Say(NEXT_TURN_FALLBACK), Hangup >>
                    /\ IF d.hangup THEN r.CallSid \notin DOMAIN callHistories
                       ELSE /\ r.CallSid \in DOMAIN callHistories
                            /\ callHistories[r.CallSid].history = r.updatedHistory
           /\ (Done(r) /\ r.ttsCalls = 1 /\ r.ttsError = "none" /\ r.error = "none")
                 => /\ r.sent[1][1] = Play(AudioUrl(d.spokenText))
                    /\ Act(r) = IF d.hangup THEN "terminate" ELSE "continue"

C8_Witness ==
    \E s \in DOMAIN inv :
        /\ Done(inv[s]) /\ inv[s].ttsError = "InternalServerError" /\ inv[s].error = "none"
        /\ Act(inv[s]) = "continue" /\ inv[s].sent[1][1] = Say(<<"ok">>)
        /\ Len(callHistories[inv[s].CallSid].history) = 4

\* C9: an invocation with empty speech and retry < MAX_RETRIES answers with
\* a retry directive carrying retry + 1, calls neither the generative nor the
\* synthesis collaborator, and none of its steps changes the history store.
C9_RetryFrame ==
    /\ [] ( \A s \in DOMAIN inv :
              LET r == inv[s]
              IN (r.pc # "idle" /\ r.SpeechResult = <<>> /\ r.currentRetry < MAX_RETRIES
                  /\ r.error = "none")
                    => /\ r.llmCalls = 0 /\ r.ttsCalls = 0
                       /\ r.pc \in {"retry_log", "done"}
                       /\ r.pc = "done"
                            => /\ Act(r) = "retry"
                               /\ GatherOf(r.sent[1]).retry = r.currentRetry + 1
                               /\ r.sent[1][1] = Say(RETRY_PROMPT) )
    /\ [][ \A s \in DOMAIN inv :
              (inv'[s] # inv[s] /\ inv'[s].error = "none"
               /\ (inv'[s].pc = "retry_log" \/ inv[s].pc = "retry_log"))
                 => callHistories' = callHistories ]_vars

C9_Witness ==
    \E s \in DOMAIN inv :
        /\ Done(inv[s]) /\ inv[s].SpeechResult = <<>> /\ inv[s].currentRetry = 1
        /\ Act(inv[s]) = "retry" /\ GatherOf(inv[s].sent[1]).retry = 2
        /\ inv[s].CallSid \in DOMAIN callHistories

\* C10: an invocation that reaches the generation step before turn
\* MAX_TURNS and does not throw answers terminate exactly when the
\* collaborator's text contains HANGUPNOW, and continue otherwise.
C10_TerminateIffSentinel ==
    \A s \in DOMAIN inv :
        (Generated(inv[s]) /\ inv[s].turnNumber < MAX_CONVERSATION_TURNS)
            => /\ Act(inv[s]) \in {"terminate", "continue"}
               /\ Act(inv[s]) = "terminate" <=> Includes(inv[s].llmText)

C10_Witness ==
    \E s \in DOMAIN inv :
        /\ Generated(inv[s]) /\ inv[s].turnNumber = 2
        /\ inv[s].llmText = <<"ok", SP, HANGUPNOW>>
        /\ Act(inv[s]) = "terminate" /\ SpokenOf(inv[s].sent[1]) = <<"ok">>

\* position of a call session in its conversation: completed turns, then
\* retries of the current turn
Rank(sid) == completed[sid] * (MAX_RETRIES + 1) + gatherRetry[sid]

\* the invocation in slot s is answered by this step
Answered(s) == inv[s].pc # "done" /\ inv'[s].pc = "done"

\* C11: with one webhook of a call at a time, the retry count echoed and two
\* records appended per generation, a call session is terminated no later
\* than its MAX_CONVERSATION_TURNS-th generation step: a generation step has
\* a turn number of at most 10 and the one of turn 10 answers terminate;
\* every retry or continue directive moves the session strictly up in a
\* rank that stays below 10 * (MAX_RETRIES + 1) = 30, so a session has at
\* most 10 generation calls and 30 invocations and no infinite sequence of
\* retry and continue directives.
C11_BoundedSession ==
    /\ [](\A sid \in CallSids :
            /\ gatherRetry[sid] <= MAX_RETRIES
            /\ completed[sid] <= MAX_CONVERSATION_TURNS - 1
            /\ Rank(sid) <= MAX_CONVERSATION_TURNS * (MAX_RETRIES + 1) - 1
            /\ \A s \in DOMAIN inv :
                  /\ (inv[s].llmCalls = 1 /\ inv[s].CallSid = sid)
                        => inv[s].turnNumber = completed[sid] + 1
                           \/ (Done(inv[s]) /\ completed[sid] \in {0, inv[s].turnNumber})
                  /\ inv[s].llmCalls = 1 => inv[s].turnNumber <= MAX_CONVERSATION_TURNS
                  /\ (Done(inv[s]) /\ inv[s].llmCalls = 1
                        /\ inv[s].turnNumber = MAX_CONVERSATION_TURNS)
                        => Act(inv[s]) = "terminate")
    /\ [][\A s \in DOMAIN inv : Answered(s) =>
            LET sid == inv[s].CallSid
                a == DirectiveAction(inv'[s].sent[1])
            IN /\ a = "terminate" => Rank(sid)' = 0
               /\ a = "retry" => /\ completed'[sid] = completed[sid]
                                 /\ gatherRetry'[sid] = gatherRetry[sid] + 1
               /\ a = "continue" => completed'[sid] = completed[sid] + 1
               /\ a # "terminate" => Rank(sid)' > Rank(sid)]_vars

\* the last invocation a session can have: silence at retry 2 of turn 10,
\* answered with terminate after the tenth generation call
C11_Witness ==
    \E s \in DOMAIN inv :
        /\ Done(inv[s]) /\ inv[s].llmCalls = 1
        /\ inv[s].turnNumber = MAX_CONVERSATION_TURNS
        /\ inv[s].currentRetry = MAX_RETRIES
        /\ Len(turnLog[inv[s].CallSid]) = MAX_RETRIES + 1
        /\ Act(inv[s]) = "terminate"

\* C12: when generateLlmResponse fails internally (no API key, or an
\* exception of the SDK) it returns instead of raising: its text contains
\* HANGUPNOW and its history is the input history followed by the attempted
\* utterance and the fallback reply; the invocation goes on to synthesis and,
\* unless a later step throws, answers terminate and not the apology of the
\* failure path.
C12_CollaboratorFailureTerminates ==
    \A s \in DOMAIN inv :
        LET r == inv[s]
        IN r.llmOutcome \in {"nokey", "throws"} =>
             /\ \E i \in 1..Len(r.llmText) : r.llmText[i] = HANGUPNOW
             /\ r.updatedHistory =
                   r.currentHistory \o << UserRecord(r.speechResult), ModelRecord(r.llmText) >>
             /\ r.error \in {"none", "TwimlError"}
             /\ r.hangup
             /\ (Done(r) /\ r.error = "none") =>
                   /\ Act(r) = "terminate"
                   /\ r.sent[1] # ErrorTwiml
                   /\ \A i \in 1..Len(r.errs) : r.errs[i].message # "critical"

C12_Witness ==
    \E s \in DOMAIN inv :
        /\ Done(inv[s]) /\ inv[s].llmOutcome = "throws" /\ inv[s].error = "none"
        /\ inv[s].turnNumber = 2
        /\ Act(inv[s]) = "terminate"
        /\ Len(inv[s].updatedHistory) = 4

\* C13: a failed write of the turn log or of the retry log changes nothing
\* but the log: the invocation still sends the document it had built (same
\* action, spoken text and next retry count), the history store is what it
\* was, and the failure path is not taken.
C13_LogFailureHarmless ==
    [][\A s \in DOMAIN inv :
          (inv[s].pc \in {"retry_log", "log"} /\ inv'[s] # inv[s]) =>
             LET r == inv[s]
                 q == inv'[s]
             IN /\ [q EXCEPT !.logs = <<>>] =
                      [r EXCEPT !.pc = "done", !.sent = << r.twiml >>, !.logs = <<>>]
                /\ Len(q.logs) = 1
                /\ q.error = "none"
                /\ callHistories' = callHistories
                /\ gatherRetry'[r.CallSid] =
                      (IF HasGather(r.twiml) THEN GatherOf(r.twiml).retry ELSE 0)]_vars

C13_Witness ==
    \E s \in DOMAIN inv :
        /\ Done(inv[s]) /\ inv[s].error = "none"
        /\ Len(inv[s].logs) = 1 /\ ~inv[s].logs[1].ok
        /\ Act(inv[s]) = "continue"
        /\ inv[s].CallSid \in DOMAIN callHistories
        /\ HistoryOf(callHistories, inv[s].CallSid) = inv[s].updatedHistory

\* C22: with the invocations of a call delivered one at a time, after an
\* invocation that ends in a continue directive the stored history of the
\* call is the updatedHistory its generation step returned: the history
\* read at the start of the turn, then the user record of the turn, then
\* the model record of the turn; nothing lost, duplicated or reordered.
C22_StoredHistoryIsUpdatedHistory ==
    \A s \in DOMAIN inv :
        LET r == inv[s]
            n == Len(r.currentHistory)
            h == HistoryOf(callHistories, r.CallSid)
        IN (Generated(r) /\ Act(r) = "continue") =>
              /\ h = r.updatedHistory
              /\ Len(h) = n + 2
              /\ SubSeq(h, 1, n) = r.currentHistory
              /\ h[n + 1] = UserRecord(r.speechResult)
              /\ h[n + 2].role = "model" /\ Trim(h[n + 2].text) = r.llmText
              /\ n = 2 * (r.turnNumber - 1)

C22_Witness ==
    \E s \in DOMAIN inv :
        /\ Generated(inv[s]) /\ Act(inv[s]) = "continue"
        /\ inv[s].turnNumber = 3
        /\ Len(HistoryOf(callHistories, inv[s].CallSid)) = 6
        /\ inv[s].currentHistory # <<>>

\* C24, as claimed: when an invocation ends through the failure path after
\* its generation step stored the history, the entry of the call is left in
\* place.
C24_OrphanedOnFailure ==
    \A s \in DOMAIN inv :
        (Done(inv[s]) /\ inv[s].error # "none" /\ inv[s].llmCalls = 1)
            => inv[s].CallSid \in DOMAIN callHistories

\* C24, amended: the history entry of a call is deleted when the engine
\* decides to terminate and also when an invocation ends through the
\* failure path (the catch block deletes it after sending the apology);
\* after a continue directive it is present, and a retry directive leaves
\* it as it was.
C24_DeletedOnTerminateOrFailure ==
    \A s \in DOMAIN inv :
        LET r == inv[s]
            present == r.CallSid \in DOMAIN callHistories
        IN Done(r) =>
              /\ r.error # "none" => (~present /\ Act(r) = "terminate")
              /\ Act(r) = "terminate" => ~present
              /\ Act(r) = "continue" => present
              /\ Act(r) = "retry" => (present <=> r.currentHistory # <<>>)

\* the failure path taken in turn 2, after the generation step stored four
\* records: the entry is gone
C24_Witness ==
    \E s \in DOMAIN inv :
        /\ Done(inv[s]) /\ inv[s].error # "none" /\ inv[s].llmCalls = 1
        /\ inv[s].turnNumber = 2
        /\ Len(inv[s].updatedHistory) = 4
        /\ inv[s].CallSid \notin DOMAIN callHistories

\* C28: an invocation has a retry count in 0..MAX_RETRIES; its retry
\* directive carries that count plus one, between 1 and MAX_RETRIES; the
\* collection of a continue directive carries retry count 0; no directive
\* carries a retry count above MAX_RETRIES.
C28_RetryCountsInRange ==
    /\ \A sid \in DOMAIN gatherRetry : gatherRetry[sid] \in 0..MAX_RETRIES
    /\ \A s \in DOMAIN inv :
        LET r == inv[s]
        IN Done(r) =>
              /\ r.currentRetry \in 0..MAX_RETRIES
              /\ \A i \in 1..Len(r.sent[1]) :
                    r.sent[1][i].verb = "Gather" =>
                       /\ r.sent[1][i].retry \in 0..MAX_RETRIES
                       /\ r.llmCalls = 1 => r.sent[1][i].retry = 0
                       /\ r.llmCalls = 0 =>
                             /\ r.sent[1][i].retry = r.currentRetry + 1
                             /\ r.sent[1][i].retry \in 1..MAX_RETRIES

\* a turn completed by silence at retry MAX_RETRIES: the next collection
\* starts at retry 0
C28_Witness ==
    \E s \in DOMAIN inv :
        /\ Generated(inv[s]) /\ HasGather(inv[s].sent[1])
        /\ inv[s].currentRetry = MAX_RETRIES
        /\ gatherRetry[inv[s].CallSid] = 0

\* C29: if the text to speak is empty after the termination decision (the
\* collaborator returned an empty text, or the sentinel alone), the goodbye
\* phrase is substituted when the decision is terminate and the issue
\* phrase when it is continue; the decision stays what it was, and no
\* continue or terminate directive of a generation step speaks an empty text.
C29_EmptyTextFallback ==
    \A s \in DOMAIN inv :
        LET r == inv[s]
            sentinel == \E i \in 1..Len(r.llmText) : r.llmText[i] = HANGUPNOW
            early == r.turnNumber < MAX_CONVERSATION_TURNS
        IN (r.llmCalls = 1 /\ r.pc # "llm") =>
              /\ r.spokenText # <<>>
              /\ r.hangup = (~early \/ sentinel)
              /\ (early /\ r.llmText = <<>>) => r.spokenText = ISSUE_FALLBACK
              /\ (early /\ r.llmText = <<HANGUPNOW>>) => r.spokenText = GOODBYE_FALLBACK
              /\ Generated(r) =>
                    /\ SpokenOf(r.sent[1]) = r.spokenText
                    /\ Act(r) = IF r.hangup THEN "terminate" ELSE "continue"

C29_Witness ==
    \E s \in DOMAIN inv :
        /\ Generated(inv[s]) /\ inv[s].llmText = <<>>
        /\ Act(inv[s]) = "continue"
        /\ SpokenOf(inv[s].sent[1]) = ISSUE_FALLBACK

\* C30: within one invocation the synthesis request is issued only after the
\* generation call has returned and its history has been stored; an
\* invocation makes at most one generation call and at most one synthesis
\* call, and the two are never outstanding together.
C30_SequentialAwaits ==
    \A s \in DOMAIN inv :
        LET r == inv[s]
        IN /\ r.llmCalls \in {0, 1} /\ r.ttsCalls \in {0, 1}
           /\ r.pc = "llm" => (r.llmCalls = 1 /\ r.ttsCalls = 0)
           /\ r.ttsCalls = 1 => (r.llmCalls = 1 /\ r.llmOutcome # "none")
           /\ r.pc = "tts" =>
                 /\ r.ttsCalls = 1
                 /\ r.CallSid \in DOMAIN callHistories
                 /\ callHistories[r.CallSid].history = r.updatedHistory
                 /\ Len(r.updatedHistory) = Len(r.currentHistory) + 2

C30_Witness ==
    \E s \in DOMAIN inv :
        /\ inv[s].pc = "tts" /\ inv[s].turnNumber = 2
        /\ inv[s].llmCalls = 1 /\ inv[s].ttsCalls = 1
        /\ HistoryOf(callHistories, inv[s].CallSid) = inv[s].updatedHistory


\* ------------------------------------------------------------------------
\* Transcription bridge: handleWebSocketConnection of
\* src/src/websocketHandler.js.  One record per media-stream connection:
\* the readyState of the WebSocket (ws) and of the Deepgram live session
\* (dg: 0 connecting, 1 open, 2 closing, 3 closed), the variables of the
\* closure, the calls made on the collaborators, and the handlers waiting
\* at an await.
\* ------------------------------------------------------------------------
UNKNOWN_CALLSID_WS == "unknown_callsid_ws"
UNKNOWN_STREAMSID_WS == "unknown_streamsid_ws"
DEEPGRAM_CLOSED_REASON == "Deepgram connection closed"
DEEPGRAM_ERROR_REASON == "Deepgram connection error"

\* events (messages, transcripts, session errors) one connection receives
MaxEvents == 3

engineVars == << API_KEY, callHistories, inv, gatherRetry, completed, turnLog, hooks >>

Conns == {1}
WsCallSids == {"CA1", "CA2"}
StreamSids == {"MZ1"}
Fragments == { <<>>, <<SP>>, <<"A.", SP>>, <<"B.">> }
TaskKinds == {"stop", "dgclose_ok", "dgclose_fail", "dgclose_errlog", "dgerror", "wserror"}

NewBridge == [ ws |-> "OPEN", dg |-> 0, closedTranscript |-> <<>>,
               callSid |-> UNKNOWN_CALLSID_WS, streamSid |-> UNKNOWN_STREAMSID_WS,
               sent |-> 0, finalizes |-> 0, logs |-> <<>>, errs |-> <<>>,
               pending |-> [k \in TaskKinds |-> 0], closeReason |-> "none",
               events |-> 0, media |-> 0, finals |-> <<>>, sessions |-> 1,
               unhandled |-> 0 ]

\* a call of logToFirebase(callSid, {event, streamSid, transcript})
LogRecord(event, key, streamSid, transcript, ok) ==
    [ event |-> event, key |-> key, streamSid |-> streamSid,
      transcript |-> transcript, ok |-> ok ]

\* a call of logErrorToFirebase(callSid, error)
ErrRecord(key, message) == [ key |-> key, message |-> message ]

\* the session accepting audio in every state but closed
SessionIsOpen_NotClosed(dg) == dg # 3

\* deepgramConnection.getReadyState() === 1
SessionIsOpen(dg) == dg = 1

\* a finalize request issued whatever the state of the session
Finalize_Unguarded(b) == [b EXCEPT !.finalizes = @ + 1]

\* if (deepgramConnection && getReadyState() === 1) deepgramConnection.finalize()
Finalize(b) == IF SessionIsOpen(b.dg) THEN [b EXCEPT !.finalizes = @ + 1] ELSE b

\* if (ws.readyState === ws.OPEN) ws.close(1011, reason)
CloseWs(b, reason) == IF b.ws = "OPEN"
                      THEN [b EXCEPT !.ws = "CLOSING", !.closeReason = reason]
                      ELSE b

\* an accumulator that holds the last final fragment only
Accumulate_Replace(closedTranscript, is_final, text) ==
    IF is_final /\ text # <<>> /\ Trim(text) # <<>>
    THEN text \o << SP >>
    ELSE closedTranscript

\* the accumulator taking interim fragments too
Accumulate_NoFinalCheck(closedTranscript, is_final, text) ==
    IF text # <<>> /\ Trim(text) # <<>>
    THEN closedTranscript \o text \o << SP >>
    ELSE closedTranscript

\* if (is_final) { if (t && t.trim().length > 0) closedTranscript += t + ' ' }
Accumulate(closedTranscript, is_final, text) ==
    IF is_final /\ text # <<>> /\ Trim(text) # <<>>
    THEN closedTranscript \o text \o << SP >>
    ELSE closedTranscript

Await(b, kind) == [b EXCEPT !.pending[kind] = @ + 1]
Resume(b, kind) == [b EXCEPT !.pending[kind] = @ - 1]
Received(b) == [b EXCEPT !.events = @ + 1]

\* ws.on('message'): the connection is open
CanReceive(c) == bridge[c].ws = "OPEN" /\ bridge[c].events < MaxEvents

\* a start handler that stores whichever of the two ids the message has
StartMessage_PartialUpdate(c, callSid, streamSid) ==
    LET b == bridge[c]
    IN /\ CanReceive(c)
       /\ bridge' = [bridge EXCEPT ![c] =
            IF callSid # "" /\ streamSid # ""
            THEN [Received(b) EXCEPT !.callSid = callSid, !.streamSid = streamSid,
                     !.logs = Append(@, LogRecord("twilio_stream_start", callSid,
                                                  streamSid, <<>>, TRUE))]
            ELSE [Received(b) EXCEPT
                     !.callSid = IF callSid # "" THEN callSid ELSE @,
                     !.streamSid = IF streamSid # "" THEN streamSid ELSE @,
                     !.errs = Append(@, ErrRecord(b.callSid, "Received 'start' event without callSid/streamSid"))]]
       /\ UNCHANGED engineVars

\* case 'start'
StartMessage(c, callSid, streamSid) ==
    LET b == bridge[c]
    IN /\ CanReceive(c)
       /\ bridge' = [bridge EXCEPT ![c] =
            IF callSid # "" /\ streamSid # ""
            THEN [Received(b) EXCEPT !.callSid = callSid, !.streamSid = streamSid,
                     !.logs = Append(@, LogRecord("twilio_stream_start", callSid,
                                                  streamSid, <<>>, TRUE))]
            ELSE [Received(b) EXCEPT
                     !.errs = Append(@, ErrRecord(b.callSid, "Received 'start' event without callSid/streamSid"))]]
       /\ UNCHANGED engineVars

\* case 'media'
MediaMessage(c, payload) ==
    LET b == bridge[c]
    IN /\ CanReceive(c)
       /\ bridge' = [bridge EXCEPT ![c] =
            IF payload
            THEN IF SessionIsOpen(b.dg)
                 THEN [Received(b) EXCEPT !.media = @ + 1, !.sent = @ + 1]
                 ELSE [Received(b) EXCEPT !.media = @ + 1]
            ELSE [Received(b) EXCEPT
                     !.errs = Append(@, ErrRecord(b.callSid, "Received 'media' event without payload"))]]
       /\ UNCHANGED engineVars

\* case 'stop', up to the await of the log
StopMessage(c, stopStreamSid) ==
    LET b == bridge[c]
        sid == IF stopStreamSid # "" THEN stopStreamSid ELSE b.streamSid
    IN /\ CanReceive(c)
       /\ bridge' = [bridge EXCEPT ![c] =
            Await([Received(b) EXCEPT
                     !.logs = Append(@, LogRecord("twilio_stream_stop", b.callSid,
                                                  sid, <<>>, TRUE))], "stop")]
       /\ UNCHANGED engineVars

\* case 'stop', after the await
StopLogged(c) ==
    /\ bridge[c].pending["stop"] > 0
    /\ bridge' = [bridge EXCEPT ![c] = Finalize(Resume(bridge[c], "stop"))]
    /\ UNCHANGED engineVars

\* case 'connected' and default: console output only
OtherMessage(c) ==
    /\ CanReceive(c)
    /\ bridge' = [bridge EXCEPT ![c] = Received(bridge[c])]
    /\ UNCHANGED engineVars

\* a parse error that ends the connection
MalformedMessage_Close(c) ==
    LET b == bridge[c]
    IN /\ CanReceive(c)
       /\ bridge' = [bridge EXCEPT ![c] =
            CloseWs([Received(b) EXCEPT
                     !.errs = Append(@, ErrRecord(b.callSid, "Error processing WebSocket message"))],
                    "message error")]
       /\ UNCHANGED engineVars

\* JSON.parse throws: the catch of the message handler
MalformedMessage(c) ==
    LET b == bridge[c]
    IN /\ CanReceive(c)
       /\ bridge' = [bridge EXCEPT ![c] =
            [Received(b) EXCEPT
                     !.errs = Append(@, ErrRecord(b.callSid, "Error processing WebSocket message"))]]
       /\ UNCHANGED engineVars

\* LiveTranscriptionEvents.Open
DgOpen(c) ==
    /\ bridge[c].dg = 0
    /\ bridge' = [bridge EXCEPT ![c].dg = 1]
    /\ UNCHANGED engineVars

\* the session starts its closing handshake
DgClosing(c) ==
    /\ bridge[c].dg = 1
    /\ bridge' = [bridge EXCEPT ![c].dg = 2]
    /\ UNCHANGED engineVars

\* a transcript handler whose accumulator is one variable of the module,
\* shared by all the connections
DgTranscript_SharedAccumulator(c, is_final, text) ==
    LET b == bridge[c]
    IN /\ b.dg \in {1, 2} /\ b.events < MaxEvents
       /\ bridge' = [ k \in DOMAIN bridge |->
            [(IF k = c THEN [Received(b) EXCEPT
                               !.finals = IF is_final THEN Append(@, text) ELSE @]
                       ELSE bridge[k]) EXCEPT
               !.closedTranscript = Accumulate(@, is_final, text)] ]
       /\ UNCHANGED engineVars

\* a transcript handler that writes a record for every final fragment
DgTranscript_FlushEach(c, is_final, text) ==
    LET b == bridge[c]
    IN /\ b.dg \in {1, 2} /\ b.events < MaxEvents
       /\ bridge' = [bridge EXCEPT ![c] =
            [Received(b) EXCEPT
               !.closedTranscript = Accumulate(@, is_final, text),
               !.finals = IF is_final THEN Append(@, text) ELSE @,
               !.logs = IF is_final
                        THEN Append(@, LogRecord("deepgram_transcript_final", b.callSid,
                                                 b.streamSid, Trim(text), TRUE))
                        ELSE @]]
       /\ UNCHANGED engineVars

\* LiveTranscriptionEvents.Transcript; finals lists the final fragments
\* delivered
DgTranscript(c, is_final, text) ==
    LET b == bridge[c]
    IN /\ b.dg \in {1, 2} /\ b.events < MaxEvents
       /\ bridge' = [bridge EXCEPT ![c] =
            [Received(b) EXCEPT
               !.closedTranscript = Accumulate(@, is_final, text),
               !.finals = IF is_final THEN Append(@, text) ELSE @]]
       /\ UNCHANGED engineVars

\* LiveTranscriptionEvents.Error, up to the await of the error log
DgError(c) ==
    LET b == bridge[c]
    IN /\ b.dg # 3 /\ b.events < MaxEvents
       /\ bridge' = [bridge EXCEPT ![c] =
            Await([Received(b) EXCEPT
                     !.errs = Append(@, ErrRecord(b.callSid, "Deepgram connection error"))],
                  "dgerror")]
       /\ UNCHANGED engineVars

\* the error handler leaving the connection as it is
DgErrorLogged_NoClose(c) ==
    /\ bridge[c].pending["dgerror"] > 0
    /\ bridge' = [bridge EXCEPT ![c] = Resume(bridge[c], "dgerror")]
    /\ UNCHANGED engineVars

\* LiveTranscriptionEvents.Error, after the await: "Close WebSocket on
\* Deepgram error"
DgErrorLogged(c) ==
    /\ bridge[c].pending["dgerror"] > 0
    /\ bridge' = [bridge EXCEPT ![c] =
                    CloseWs(Resume(bridge[c], "dgerror"), DEEPGRAM_ERROR_REASON)]
    /\ UNCHANGED engineVars

\* a close handler that keys its record by the placeholders
DgClose_PlaceholderKey(c, ok) ==
    LET b == bridge[c]
        finalTranscript == Trim(b.closedTranscript)
    IN /\ b.dg # 3
       /\ bridge' = [bridge EXCEPT ![c] =
            Await([b EXCEPT !.dg = 3,
                     !.logs = Append(@, LogRecord("deepgram_transcript_final", UNKNOWN_CALLSID_WS,
                                                  UNKNOWN_STREAMSID_WS, finalTranscript, ok))],
                  IF ok THEN "dgclose_ok" ELSE "dgclose_fail")]
       /\ UNCHANGED engineVars

\* LiveTranscriptionEvents.Close, up to the await of the transcript log; ok
\* is the outcome of the write
DgClose(c, ok) ==
    LET b == bridge[c]
        finalTranscript == Trim(b.closedTranscript)
    IN /\ b.dg # 3
       /\ bridge' = [bridge EXCEPT ![c] =
            Await([b EXCEPT !.dg = 3,
                     !.logs = Append(@, LogRecord("deepgram_transcript_final", b.callSid,
                                                  b.streamSid, finalTranscript, ok))],
                  IF ok THEN "dgclose_ok" ELSE "dgclose_fail")]
       /\ UNCHANGED engineVars

\* LiveTranscriptionEvents.Close, the transcript log returns: the connection
\* is closed, or the failure is reported first
DgCloseLogReturn(c) ==
    LET b == bridge[c]
    IN /\ b.pending["dgclose_ok"] + b.pending["dgclose_fail"] > 0
       /\ bridge' = [bridge EXCEPT ![c] =
            IF b.pending["dgclose_ok"] > 0
            THEN CloseWs(Resume(b, "dgclose_ok"), DEEPGRAM_CLOSED_REASON)
            ELSE Await([Resume(b, "dgclose_fail") EXCEPT
                          !.errs = Append(@, ErrRecord(b.callSid,
                                        "Error logging final Deepgram transcript to Firebase"))],
                       "dgclose_errlog")]
       /\ UNCHANGED engineVars

\* a close handler that ends after the report of the failed write
DgCloseErrorLogged_NoClose(c, ok) ==
    /\ bridge[c].pending["dgclose_errlog"] > 0
    /\ bridge' = [bridge EXCEPT ![c] = Resume(bridge[c], "dgclose_errlog")]
    /\ UNCHANGED engineVars

\* a report of the failed write without its .catch: when the report fails
\* too the rejection leaves the handler
DgCloseErrorLogged_NoCatch(c, ok) ==
    /\ bridge[c].pending["dgclose_errlog"] > 0
    /\ bridge' = [bridge EXCEPT ![c] =
                    IF ok THEN CloseWs(Resume(bridge[c], "dgclose_errlog"), DEEPGRAM_CLOSED_REASON)
                    ELSE [Resume(bridge[c], "dgclose_errlog") EXCEPT !.unhandled = @ + 1]]
    /\ UNCHANGED engineVars

\* LiveTranscriptionEvents.Close, the report of the failed write returns,
\* or fails and its .catch swallows the failure (ok is its outcome)
DgCloseErrorLogged(c, ok) ==
    /\ bridge[c].pending["dgclose_errlog"] > 0
    /\ bridge' = [bridge EXCEPT ![c] =
                    CloseWs(Resume(bridge[c], "dgclose_errlog"), DEEPGRAM_CLOSED_REASON)]
    /\ UNCHANGED engineVars

\* ws.on('close'): the peer closed, or the close the bridge asked for ended
WsClose(c) ==
    /\ bridge[c].ws # "CLOSED"
    /\ bridge' = [bridge EXCEPT ![c] = Finalize([bridge[c] EXCEPT !.ws = "CLOSED"])]
    /\ UNCHANGED engineVars

\* ws.on('error'), up to the await of the error log
WsError(c) ==
    LET b == bridge[c]
    IN /\ b.ws = "OPEN"
       /\ bridge' = [bridge EXCEPT ![c] =
            Await([b EXCEPT !.ws = "CLOSING",
                     !.errs = Append(@, ErrRecord(b.callSid, "WebSocket connection error"))],
                  "wserror")]
       /\ UNCHANGED engineVars

\* ws.on('error'), after the await
WsErrorLogged(c) ==
    /\ bridge[c].pending["wserror"] > 0
    /\ bridge' = [bridge EXCEPT ![c] = Finalize(Resume(bridge[c], "wserror"))]
    /\ UNCHANGED engineVars

\* a connection accepted by the WebSocket server: the session is created
\* (deepgram.listen.live) and connecting
BridgeInit ==
    /\ API_KEY = TRUE
    /\ callHistories = << >>
    /\ inv = << >>
    /\ gatherRetry = [ sid \in CallSids |-> 0 ]
    /\ completed = [ sid \in CallSids |-> 0 ]
    /\ turnLog = [ sid \in CallSids |-> <<>> ]
    /\ bridge = [ c \in Conns |-> NewBridge ]
    /\ hooks = << >>

BridgeNext ==
    \E c \in Conns :
        \/ \E cs \in WsCallSids \cup {""}, ss \in StreamSids \cup {""} : StartMessage(c, cs, ss)
        \/ \E p \in BOOLEAN : MediaMessage(c, p)
        \/ \E ss \in StreamSids \cup {""} : StopMessage(c, ss)
        \/ StopLogged(c)
        \/ OtherMessage(c)
        \/ MalformedMessage(c)
        \/ DgOpen(c)
        \/ DgClosing(c)
        \/ \E f \in BOOLEAN, t \in Fragments : DgTranscript(c, f, t)
        \/ DgError(c)
        \/ DgErrorLogged(c)
        \/ \E ok \in BOOLEAN : DgClose(c, ok)
        \/ DgCloseLogReturn(c)
        \/ \E ok \in BOOLEAN : DgCloseErrorLogged(c, ok)
        \/ WsClose(c)
        \/ WsError(c)
        \/ WsErrorLogged(c)

BridgeSpec == BridgeInit /\ [][BridgeNext]_vars

\* ------------------------------------------------------------------------
\* Properties of the transcription bridge
\* ------------------------------------------------------------------------
\* the session-close transcript records written for a connection
FinalRecords(b) == { i \in 1..Len(b.logs) : b.logs[i].event = "deepgram_transcript_final" }

\* the error records with a given message
ErrorsOf(b, message) == { i \in 1..Len(b.errs) : b.errs[i].message = message }

NoTaskPending(b) == \A k \in TaskKinds : b.pending[k] = 0

\* the callSid of the last valid start message, or the placeholder
LastStartKey(b) ==
    LET starts == { i \in 1..Len(b.logs) : b.logs[i].event = "twilio_stream_start" }
    IN IF starts = {} THEN UNKNOWN_CALLSID_WS
       ELSE b.logs[CHOOSE i \in starts : \A j \in starts : j <= i].key

\* each fragment followed by one space, concatenated
RECURSIVE JoinFragments(_)
JoinFragments(fs) == IF fs = <<>> THEN <<>>
                     ELSE Head(fs) \o << SP >> \o JoinFragments(Tail(fs))

\* the fragment has a character that is not whitespace
NonBlank(f) == \E i \in 1..Len(f) : f[i] # SP

C16_NoLeakedSession ==
    \A c \in DOMAIN bridge :
        (bridge[c].ws = "CLOSED" /\ bridge[c].dg = 1) => bridge[c].finalizes > 0

\* C17, as claimed: the transcript of the session-close record is the final
\* fragments delivered, in order, each followed by one space, concatenated
\* and trimmed.
C17_AllFinalFragments ==
    \A c \in DOMAIN bridge : \A i \in FinalRecords(bridge[c]) :
        bridge[c].logs[i].transcript = Trim(JoinFragments(bridge[c].finals))

\* C17, amended: the transcript of the session-close record is the final
\* fragments that are not empty or whitespace-only, in the order delivered,
\* each followed by one space, concatenated and trimmed; blank final
\* fragments and interim fragments add nothing, and no non-blank final
\* fragment is lost, duplicated or reordered.
C17_NonBlankFinalFragments ==
    \A c \in DOMAIN bridge : \A i \in FinalRecords(bridge[c]) :
        bridge[c].logs[i].transcript =
            Trim(JoinFragments(SelectSeq(bridge[c].finals, NonBlank)))

\* "A. ", an empty final fragment, "B." give "A.  B."
C17_Witness ==
    \E c \in DOMAIN bridge : \E i \in FinalRecords(bridge[c]) :
        /\ bridge[c].finals = << <<"A.", SP>>, <<>>, <<"B.">> >>
        /\ bridge[c].logs[i].transcript = <<"A.", SP, SP, "B.">>

\* C18: a message that is not valid JSON forwards no audio and makes exactly
\* one error record, keyed by the callSid of the last valid start message or
\* by the placeholder; the connection stays open and callSid, streamSid and
\* the accumulator are unchanged, so later messages are handled as before.
C18_MalformedMessage ==
    [][\A c \in DOMAIN bridge :
          LET b == bridge[c]
              q == bridge'[c]
              message == "Error processing WebSocket message"
          IN (Len(q.errs) = Len(b.errs) + 1 /\ q.errs[Len(q.errs)].message = message) =>
                /\ q = [b EXCEPT !.events = @ + 1,
                                 !.errs = Append(@, ErrRecord(LastStartKey(b), message))]
                /\ q.ws = "OPEN"]_vars

\* a malformed message before any start, a valid start handled after it, and
\* a second malformed message keyed by the callSid of that start
C18_Witness ==
    \E c \in DOMAIN bridge :
        /\ bridge[c].errs = << ErrRecord(UNKNOWN_CALLSID_WS, "Error processing WebSocket message"),
                               ErrRecord("CA1", "Error processing WebSocket message") >>
        /\ bridge[c].callSid = "CA1"
        /\ bridge[c].ws = "OPEN"

\* C19, as claimed: after the handler of a transcription-session error has
\* run the connection is still open, unless the session or the connection
\* has had a close (or connection error) event.
C19_ErrorLeavesConnectionOpen ==
    \A c \in DOMAIN bridge :
        LET b == bridge[c]
        IN ( /\ ErrorsOf(b, "Deepgram connection error") # {}
             /\ b.pending["dgerror"] = 0
             /\ b.dg # 3 /\ b.ws # "CLOSED"
             /\ ErrorsOf(b, "WebSocket connection error") = {} )
           => b.ws = "OPEN"

\* C19, amended: a transcription-session error event is logged as one error
\* record keyed by the callSid of the bridge, and when that log call has
\* returned the handler closes the media-stream connection if it is still
\* open (code 1011, 'Deepgram connection error'): after the handler has run
\* the connection is never open.
C19_ErrorClosesConnection ==
    /\ [](\A c \in DOMAIN bridge :
            LET b == bridge[c]
            IN (ErrorsOf(b, "Deepgram connection error") # {} /\ b.pending["dgerror"] = 0)
                  => /\ b.ws # "OPEN"
                     /\ ( /\ b.closeReason = "none"
                          /\ ErrorsOf(b, "WebSocket connection error") = {} )
                        => b.ws = "CLOSED")
    /\ [][\A c \in DOMAIN bridge :
            LET b == bridge[c]
                q == bridge'[c]
                message == "Deepgram connection error"
            IN (Len(q.errs) = Len(b.errs) + 1 /\ q.errs[Len(q.errs)].message = message) =>
                  q = [b EXCEPT !.events = @ + 1,
                                !.errs = Append(@, ErrRecord(b.callSid, message)),
                                !.pending["dgerror"] = @ + 1]]_vars

\* the error handler closed the connection while the session is open
C19_Witness ==
    \E c \in DOMAIN bridge :
        /\ bridge[c].errs = << ErrRecord("CA1", "Deepgram connection error") >>
        /\ bridge[c].pending["dgerror"] = 0
        /\ bridge[c].dg = 1
        /\ bridge[c].ws = "CLOSING"
        /\ bridge[c].closeReason = DEEPGRAM_ERROR_REASON

\* ------------------------------------------------------------------------
\* Two call sessions: /handle-speech invocations for two CallSids
\* interleaved at every await, one webhook at a time within each call
\* ------------------------------------------------------------------------
\* turns a call session completes before the caller stops answering
MaxTwoCallTurns == 2

TwoCallSids == {"CA1", "CA2"}

\* the call each invocation slot serves
CallOfSlot == [ s \in {1, 2} |-> IF s = 1 THEN "CA1" ELSE "CA2" ]

TwoCallSdkResults == { [kind |-> "text", raw |-> <<"ok">>],
                       [kind |-> "text", raw |-> <<"ok", SP, HANGUPNOW>>] }

TwoCallInit ==
    /\ API_KEY = TRUE
    /\ callHistories = << >>
    /\ inv = [ s \in {1, 2} |-> Idle ]
    /\ gatherRetry = [ sid \in TwoCallSids |-> 0 ]
    /\ completed = [ sid \in TwoCallSids |-> 0 ]
    /\ turnLog = [ sid \in TwoCallSids |-> <<>> ]
    /\ bridge = << >>
    /\ hooks = << >>

\* the caller of a call goes on while its session has turns left
TwoCallDeliver(s, SpeechResult, twimlThrows) ==
    /\ completed[CallOfSlot[s]] < MaxTwoCallTurns
    /\ Deliver(s, CallOfSlot[s], SpeechResult, twimlThrows)

TwoCallNext ==
    \E s \in DOMAIN inv :
        \/ \E sp \in Speeches, t \in BOOLEAN : TwoCallDeliver(s, sp, t)
        \/ RetryLogged(s, TRUE)
        \/ \E sdk \in TwoCallSdkResults : LlmReturn(s, sdk)
        \/ \E o \in {"ok", "ElevenLabsApiError"}, t \in BOOLEAN : TtsReturn(s, o, t)
        \/ TtsErrorLogged(s, TRUE, FALSE)
        \/ TurnLogged(s, TRUE)
        \/ CriticalErrorLogged(s, TRUE)

TwoCallSpec == TwoCallInit /\ [][TwoCallNext]_vars

\* the call the step of slot s belongs to
ActingCall(s) == IF inv[s].pc \in {"idle", "done"} THEN inv'[s].CallSid ELSE inv[s].CallSid

\* C20: with invocations of two CallSids interleaved, no step of an
\* invocation for one call (failure path and history deletion included)
\* reads or changes the history entry of the other call: an invocation
\* reads the entry of its own CallSid, the entry stays what it read until
\* its generation step, its turn number is the number of turns its own call
\* completed plus one, and a step leaves the other call's entry, retry
\* count, turn count, directives and invocation as they were.
C20_CallIsolation ==
    /\ [](\A s \in DOMAIN inv :
            inv[s].pc = "llm" =>
               /\ inv[s].currentHistory = HistoryOf(callHistories, inv[s].CallSid)
               /\ inv[s].turnNumber = completed[inv[s].CallSid] + 1)
    /\ [][\A s \in DOMAIN inv : inv'[s] # inv[s] =>
            /\ (inv[s].pc \in {"idle", "done"}) =>
                  inv'[s].currentHistory = HistoryOf(callHistories, inv'[s].CallSid)
            /\ \A o \in DOMAIN inv \ {s} : inv'[o] = inv[o]
            /\ \A D \in DOMAIN gatherRetry \ {ActingCall(s)} :
                  /\ (D \in DOMAIN callHistories') = (D \in DOMAIN callHistories)
                  /\ HistoryOf(callHistories', D) = HistoryOf(callHistories, D)
                  /\ gatherRetry'[D] = gatherRetry[D]
                  /\ completed'[D] = completed[D]
                  /\ turnLog'[D] = turnLog[D]]_vars

\* the failure path of call CA1 has deleted its entry while call CA2, one
\* turn completed, is in its second generation step with its own history
C20_Witness ==
    /\ inv[1].pc = "done" /\ inv[1].error # "none" /\ inv[1].CallSid = "CA1"
    /\ inv[1].turnNumber = 2
    /\ "CA1" \notin DOMAIN callHistories
    /\ inv[2].pc = "llm" /\ inv[2].CallSid = "CA2" /\ inv[2].turnNumber = 2
    /\ Len(HistoryOf(callHistories, "CA2")) = 2

\* ------------------------------------------------------------------------
\* Overlapping invocations of one call: the telephony layer delivers a
\* webhook of a call while another one of the same call is in flight
\* ------------------------------------------------------------------------
\* continue directives a call session receives before the caller stops
MaxOverlapTurns == 2

OverlapSdkResults == { [kind |-> "text", raw |-> <<"ok">>],
                       [kind |-> "text", raw |-> <<SP>>],
                       [kind |-> "text", raw |-> <<"ok", SP, HANGUPNOW>>] }

OverlapInit ==
    /\ API_KEY = TRUE
    /\ callHistories = << >>
    /\ inv = [ s \in {1, 2} |-> Idle ]
    /\ gatherRetry = [ sid \in CallSids |-> 0 ]
    /\ completed = [ sid \in CallSids |-> 0 ]
    /\ turnLog = [ sid \in CallSids |-> <<>> ]
    /\ bridge = << >>
    /\ hooks = << >>

\* a webhook of the call arrives, whatever the other invocation is doing
OverlapEnter(s, sid, SpeechResult) ==
    /\ Len(HistoryOf(callHistories, sid)) < 2 * MaxOverlapTurns
    /\ Enter(s, sid, SpeechResult, FALSE)

OverlapNext ==
    \E s \in DOMAIN inv :
        \/ \E sid \in CallSids : OverlapEnter(s, sid, <<"yes">>)
        \/ \E sdk \in OverlapSdkResults : LlmReturn(s, sdk)
        \/ TtsReturn(s, "ok", FALSE)
        \/ TurnLogged(s, TRUE)

OverlapSpec == OverlapInit /\ [][OverlapNext]_vars

\* C23: when two invocations of the same call overlap, both having read the
\* same history, and both end in a continue directive, the stored history is
\* the updatedHistory of one of them only: it is one exchange longer than
\* the history read, not two, the other exchange is overwritten, and the
\* next turn number is one more, not two more.
C23_OverlapLosesExchange ==
    ( /\ Generated(inv[1]) /\ Act(inv[1]) = "continue"
      /\ Generated(inv[2]) /\ Act(inv[2]) = "continue"
      /\ inv[1].CallSid = inv[2].CallSid
      /\ inv[1].currentHistory = inv[2].currentHistory )
    => LET h == HistoryOf(callHistories, inv[1].CallSid)
       IN /\ h \in { inv[1].updatedHistory, inv[2].updatedHistory }
          /\ Len(h) = Len(inv[1].currentHistory) + 2
          /\ (Len(h) \div 2) + 1 = inv[1].turnNumber + 1

\* two overlapping invocations of turn 1 with different exchanges, both
\* answered with continue: the store holds the second write only
C23_Witness ==
    /\ Generated(inv[1]) /\ Act(inv[1]) = "continue"
    /\ Generated(inv[2]) /\ Act(inv[2]) = "continue"
    /\ inv[1].currentHistory = <<>> /\ inv[2].currentHistory = <<>>
    /\ inv[1].updatedHistory # inv[2].updatedHistory
    /\ HistoryOf(callHistories, "CA1") = inv[2].updatedHistory
    /\ completed["CA1"] = 2

\* ------------------------------------------------------------------------
\* Two media-stream connections served at the same time
\* ------------------------------------------------------------------------
TwoConns == {1, 2}

\* what the telephony layer and the transcription service send on each
\* connection: its own call, its own stream, its own words
ConnCallSid(c) == IF c = 1 THEN "CA1" ELSE "CA2"
ConnStreamSid(c) == IF c = 1 THEN "MZ1" ELSE "MZ2"
ConnWord(c) == IF c = 1 THEN "A." ELSE "B."
ConnFragments(c) == { << ConnWord(c), SP >> }

\* wss.on('connection'): handleWebSocketConnection runs for the accepted
\* socket, creates its session and its closure variables
Accept(c) ==
    /\ c \notin DOMAIN bridge
    /\ bridge' = [ k \in (DOMAIN bridge) \cup {c} |->
                     IF k = c THEN NewBridge ELSE bridge[k] ]
    /\ UNCHANGED engineVars

TwoConnInit ==
    /\ API_KEY = TRUE
    /\ callHistories = << >>
    /\ inv = << >>
    /\ gatherRetry = [ sid \in CallSids |-> 0 ]
    /\ completed = [ sid \in CallSids |-> 0 ]
    /\ turnLog = [ sid \in CallSids |-> <<>> ]
    /\ bridge = << >>
    /\ hooks = << >>

TwoConnNext ==
    \/ \E c \in TwoConns : Accept(c)
    \/ \E c \in DOMAIN bridge :
        \/ StartMessage(c, ConnCallSid(c), ConnStreamSid(c))
        \/ MediaMessage(c, TRUE)
        \/ DgOpen(c)
        \/ \E t \in ConnFragments(c) : DgTranscript(c, TRUE, t)
        \/ DgClose(c, TRUE)
        \/ DgCloseLogReturn(c)
        \/ WsClose(c)

TwoConnSpec == TwoConnInit /\ [][TwoConnNext]_vars

\* the tokens of a transcript are spaces and the words of connection c
OwnWords(c, transcript) ==
    \A i \in 1..Len(transcript) : transcript[i] \in {SP, ConnWord(c)}

\* C21: every accepted connection has exactly one transcription session of
\* its own; with two connections served together, the audio a session was
\* sent is audio of its own connection, the callId, streamId and accumulator
\* of a bridge come from its own start message and its own session, and a
\* session-close record holds only fragments of its own session under its
\* own callId and streamId.
C21_ConnectionIsolation ==
    \A c \in DOMAIN bridge :
        LET b == bridge[c]
        IN /\ b.sessions = 1
           /\ b.sent <= b.media
           /\ b.callSid \in {UNKNOWN_CALLSID_WS, ConnCallSid(c)}
           /\ b.streamSid \in {UNKNOWN_STREAMSID_WS, ConnStreamSid(c)}
           /\ OwnWords(c, b.closedTranscript)
           /\ Len(b.closedTranscript) <= 3 * Len(b.finals)
           /\ \A i \in FinalRecords(b) :
                 /\ OwnWords(c, b.logs[i].transcript)
                 /\ b.logs[i].key \in {UNKNOWN_CALLSID_WS, ConnCallSid(c)}
                 /\ b.logs[i].streamSid \in {UNKNOWN_STREAMSID_WS, ConnStreamSid(c)}

\* both connections started, forwarded audio, accumulated words and wrote
\* their session-close record while the other one was being served
C21_Witness ==
    /\ DOMAIN bridge = TwoConns
    /\ \A c \in TwoConns :
          /\ bridge[c].callSid = ConnCallSid(c)
          /\ bridge[c].sent > 0
          /\ \E i \in FinalRecords(bridge[c]) :
                /\ bridge[c].logs[i].key = ConnCallSid(c)
                /\ bridge[c].logs[i].transcript = << ConnWord(c) >>

\* ------------------------------------------------------------------------
\* Call lifecycle webhooks: /answered, /incoming-call, /call-status
\* ------------------------------------------------------------------------
\* twiml.start().stream({url}) with its CallSid parameter
StartStream == [verb |-> "Start", text |-> <<"wss", "live">>, retry |-> 0]
\* twiml.reject({reason: 'fax'})
Reject == [verb |-> "Reject", text |-> <<"fax">>, retry |-> 0]

REMINDER_TEXT == <<"reminder">>
UNANSWERED_TEXT == <<"unanswered">>
ANSWERED_FALLBACK == <<"If you need more time or didn't get to speak, please call back. Goodbye.">>
ANSWERED_UNEXPECTED == <<"Sorry, an unexpected call status occurred. Goodbye.">>
ANSWERED_APOLOGY == <<"An internal error occurred. Please try again later. Goodbye.">>
INCOMING_FALLBACK == <<"If you need assistance, please call back. Goodbye.">>
INCOMING_APOLOGY == <<"We encountered an error processing your call. Please try again later. Goodbye.">>

\* values of the AnsweredBy parameter; "other" is a value the switch has no
\* case for, "" is the parameter missing
AnsweredBys == {"human", "machine_end_beep", "machine_end_silence", "machine_end_other",
                "unknown", "fax", "other", ""}
MachineAnswers == {"machine_end_beep", "machine_end_silence", "machine_end_other"}
CallStatuses == {"initiated", "ringing", "in-progress", "completed",
                 "busy", "failed", "no-answer", "canceled"}
HookSlots == {1}

HookIdle == [ route |-> "none", pc |-> "idle", CallSid |-> "", AnsweredBy |-> "",
              CallStatus |-> "", twiml |-> <<>>, status |-> 0, sent |-> <<>>,
              body |-> "none", errs |-> <<>>, logs |-> <<>>, ttsCalls |-> 0,
              smsCalls |-> 0, caught |-> FALSE ]

HookInFlight(h) == h.pc \notin {"idle", "done"}

\* res.send / res.status(200).send of a TwiML document
HookSend(h, doc) == [h EXCEPT !.pc = "done", !.status = 200, !.sent = doc]

\* the catch block of a webhook up to the await of the error log
HookCatch(h, message) ==
    [h EXCEPT !.pc = "catch_log", !.caught = TRUE,
              !.errs = Append(@, ErrRecord(h.CallSid, message))]

\* the document /answered builds for a classification, given the audio
\* reference of the synthesized text
AnsweredTwiml_MachineGathers(AnsweredBy, ttsAudioUrl) ==
    IF AnsweredBy = "human" \/ AnsweredBy \in MachineAnswers
    THEN << StartStream, Play(ttsAudioUrl), Gather(0), Say(ANSWERED_FALLBACK), Hangup >>
    ELSE IF AnsweredBy = "unknown" THEN << >>
    ELSE IF AnsweredBy = "fax" THEN << Reject >>
    ELSE << Say(ANSWERED_UNEXPECTED), Hangup >>

AnsweredTwiml(AnsweredBy, ttsAudioUrl) ==
    IF AnsweredBy = "human"
    THEN << StartStream, Play(ttsAudioUrl), Gather(0), Say(ANSWERED_FALLBACK), Hangup >>
    ELSE IF AnsweredBy \in MachineAnswers THEN << Play(ttsAudioUrl), Hangup >>
    ELSE IF AnsweredBy = "unknown" THEN << >>
    ELSE IF AnsweredBy = "fax" THEN << Reject >>
    ELSE << Say(ANSWERED_UNEXPECTED), Hangup >>

\* the text /answered has synthesized
AnsweredText(AnsweredBy) == IF AnsweredBy = "human" THEN REMINDER_TEXT ELSE UNANSWERED_TEXT

\* POST /answered up to the first await: the synthesis for human and
\* machine, the error log for an unhandled classification, the event log
\* otherwise
AnsweredReceive(s, CallSid, AnsweredBy) ==
    LET h == [HookIdle EXCEPT !.route = "answered", !.CallSid = CallSid,
                              !.AnsweredBy = AnsweredBy]
    IN /\ ~HookInFlight(hooks[s])
       /\ hooks' = [hooks EXCEPT ![s] =
            IF AnsweredBy = "human" \/ AnsweredBy \in MachineAnswers
            THEN [h EXCEPT !.pc = "tts", !.ttsCalls = 1]
            ELSE IF AnsweredBy \in {"unknown", "fax"}
            THEN [h EXCEPT !.pc = "log", !.twiml = AnsweredTwiml(AnsweredBy, <<>>)]
            ELSE [h EXCEPT !.pc = "errlog", !.twiml = AnsweredTwiml(AnsweredBy, <<>>),
                           !.errs = Append(@, ErrRecord(CallSid, "Unhandled AnsweredBy status"))]]
       /\ UNCHANGED << API_KEY, callHistories, inv, gatherRetry, completed, turnLog, bridge >>

\* POST /answered: elevenLabsTextToSpeech returns or throws; twimlThrows is
\* a verb of the document throwing while it is built
AnsweredTtsReturn(s, outcome, twimlThrows) ==
    LET h == hooks[s]
    IN /\ h.route = "answered" /\ h.pc = "tts"
       /\ outcome \in TtsOutcomes
       /\ twimlThrows => outcome = "ok"
       /\ hooks' = [hooks EXCEPT ![s] =
            IF outcome # "ok" \/ twimlThrows
            THEN HookCatch(h, "Error processing answered call webhook")
            ELSE [h EXCEPT !.pc = "log",
                           !.twiml = AnsweredTwiml(h.AnsweredBy,
                                                   AudioUrl(AnsweredText(h.AnsweredBy)))]]
       /\ UNCHANGED << API_KEY, callHistories, inv, gatherRetry, completed, turnLog, bridge >>

\* POST /answered, default case: the error log returns, or fails and the
\* .catch swallows it
AnsweredErrLogged(s, ok) ==
    /\ hooks[s].route = "answered" /\ hooks[s].pc = "errlog"
    /\ hooks' = [hooks EXCEPT ![s].pc = "log"]
    /\ UNCHANGED << API_KEY, callHistories, inv, gatherRetry, completed, turnLog, bridge >>

\* POST /answered: the event log returns, or throws into the inner catch;
\* the document is sent
AnsweredLogged(s, ok) ==
    LET h == hooks[s]
    IN /\ h.route = "answered" /\ h.pc = "log"
       /\ hooks' = [hooks EXCEPT ![s] =
            HookSend([h EXCEPT !.logs = IF ok THEN Append(@, "call_answered_webhook") ELSE @],
                     h.twiml)]
       /\ UNCHANGED << API_KEY, callHistories, inv, gatherRetry, completed, turnLog, bridge >>

\* a catch block that answers with status 500 and no document
AnsweredCatchLogged_Status500(s, ok) ==
    LET h == hooks[s]
    IN /\ h.route = "answered" /\ h.pc = "catch_log"
       /\ hooks' = [hooks EXCEPT ![s] = [h EXCEPT !.pc = "done", !.status = 500]]
       /\ UNCHANGED << API_KEY, callHistories, inv, gatherRetry, completed, turnLog, bridge >>

\* POST /answered, catch block after the await of the error log: the
\* apology document is sent with status 200
AnsweredCatchLogged(s, ok) ==
    LET h == hooks[s]
    IN /\ h.route = "answered" /\ h.pc = "catch_log"
       /\ hooks' = [hooks EXCEPT ![s] = HookSend(h, << Say(ANSWERED_APOLOGY), Hangup >>)]
       /\ UNCHANGED << API_KEY, callHistories, inv, gatherRetry, completed, turnLog, bridge >>

\* POST /incoming-call up to the await of the greeting synthesis
IncomingReceive(s, CallSid) ==
    /\ ~HookInFlight(hooks[s])
    /\ hooks' = [hooks EXCEPT ![s] =
                   [HookIdle EXCEPT !.route = "incoming", !.CallSid = CallSid,
                                    !.pc = "tts", !.ttsCalls = 1]]
    /\ UNCHANGED << API_KEY, callHistories, inv, gatherRetry, completed, turnLog, bridge >>

\* POST /incoming-call: elevenLabsTextToSpeech returns or throws
IncomingTtsReturn(s, outcome) ==
    LET h == hooks[s]
    IN /\ h.route = "incoming" /\ h.pc = "tts"
       /\ outcome \in TtsOutcomes
       /\ hooks' = [hooks EXCEPT ![s] =
            IF outcome # "ok"
            THEN HookCatch(h, "Error processing incoming call webhook")
            ELSE [h EXCEPT !.pc = "log"]]
       /\ UNCHANGED << API_KEY, callHistories, inv, gatherRetry, completed, turnLog, bridge >>

\* POST /incoming-call: the event log returns, or throws into the inner
\* catch; the document is built and sent, or a verb throws
IncomingLogged(s, ok, twimlThrows) ==
    LET h == hooks[s]
        g == [h EXCEPT !.logs = IF ok THEN Append(@, "call_incoming_received") ELSE @]
    IN /\ h.route = "incoming" /\ h.pc = "log"
       /\ hooks' = [hooks EXCEPT ![s] =
            IF twimlThrows
            THEN HookCatch(g, "Error processing incoming call webhook")
            ELSE HookSend([g EXCEPT !.twiml =
                             << StartStream, Play(AudioUrl(REMINDER_TEXT)), Gather(0),
                                Say(INCOMING_FALLBACK), Hangup >>],
                          << StartStream, Play(AudioUrl(REMINDER_TEXT)), Gather(0),
                             Say(INCOMING_FALLBACK), Hangup >>)]
       /\ UNCHANGED << API_KEY, callHistories, inv, gatherRetry, completed, turnLog, bridge >>

\* POST /incoming-call, catch block after the await of the error log
IncomingCatchLogged(s, ok) ==
    LET h == hooks[s]
    IN /\ h.route = "incoming" /\ h.pc = "catch_log"
       /\ hooks' = [hooks EXCEPT ![s] = HookSend(h, << Say(INCOMING_APOLOGY), Hangup >>)]
       /\ UNCHANGED << API_KEY, callHistories, inv, gatherRetry, completed, turnLog, bridge >>

\* the decision of /call-status to send the fallback SMS
ShouldSendSms(CallStatus, AnsweredBy) ==
    IF CallStatus \in {"completed", "busy", "failed", "no-answer"}
    THEN IF CallStatus = "completed" /\ AnsweredBy = "unknown" THEN TRUE
         ELSE CallStatus \in {"busy", "failed", "no-answer"}
    ELSE FALSE

\* POST /call-status up to the await of the status log
StatusReceive(s, CallSid, CallStatus, AnsweredBy) ==
    /\ ~HookInFlight(hooks[s])
    /\ hooks' = [hooks EXCEPT ![s] =
                   [HookIdle EXCEPT !.route = "status", !.CallSid = CallSid,
                                    !.CallStatus = CallStatus, !.AnsweredBy = AnsweredBy,
                                    !.pc = "log"]]
    /\ UNCHANGED << API_KEY, callHistories, inv, gatherRetry, completed, turnLog, bridge >>

\* POST /call-status: the status log returns or throws into its catch; the
\* SMS is requested, or the empty 200 response is sent
StatusLogged(s, ok) ==
    LET h == hooks[s]
        g == [h EXCEPT !.logs = IF ok THEN Append(@, "call_status_update") ELSE @]
    IN /\ h.route = "status" /\ h.pc = "log"
       /\ hooks' = [hooks EXCEPT ![s] =
            IF ShouldSendSms(h.CallStatus, h.AnsweredBy)
            THEN [g EXCEPT !.pc = "sms", !.smsCalls = 1]
            ELSE [g EXCEPT !.pc = "done", !.status = 200, !.body = "empty"]]
       /\ UNCHANGED << API_KEY, callHistories, inv, gatherRetry, completed, turnLog, bridge >>

\* POST /call-status: twilioClient.messages.create returns or throws
SmsReturn(s, ok) ==
    LET h == hooks[s]
    IN /\ h.route = "status" /\ h.pc = "sms"
       /\ hooks' = [hooks EXCEPT ![s] =
            IF ok THEN [h EXCEPT !.pc = "smslog"]
            ELSE [h EXCEPT !.pc = "smserr", !.caught = TRUE,
                     !.errs = Append(@, ErrRecord(h.CallSid, "Error sending SMS fallback"))]]
       /\ UNCHANGED << API_KEY, callHistories, inv, gatherRetry, completed, turnLog, bridge >>

\* POST /call-status: the sms_fallback_sent log returns (a failure is
\* swallowed by .catch)
SmsLogged(s, ok) ==
    LET h == hooks[s]
    IN /\ h.route = "status" /\ h.pc = "smslog"
       /\ hooks' = [hooks EXCEPT ![s] =
            [h EXCEPT !.pc = "done", !.status = 200, !.body = "SMS text sent.",
                      !.logs = IF ok THEN Append(@, "sms_fallback_sent") ELSE @]]
       /\ UNCHANGED << API_KEY, callHistories, inv, gatherRetry, completed, turnLog, bridge >>

\* POST /call-status: the report of the failed SMS returns
SmsErrorLogged(s, ok) ==
    LET h == hooks[s]
    IN /\ h.route = "status" /\ h.pc = "smserr"
       /\ hooks' = [hooks EXCEPT ![s] =
            [h EXCEPT !.pc = "done", !.status = 200, !.body = "SMS fallback attempt failed."]]
       /\ UNCHANGED << API_KEY, callHistories, inv, gatherRetry, completed, turnLog, bridge >>

HookInit ==
    /\ API_KEY = TRUE
    /\ callHistories = << >>
    /\ inv = << >>
    /\ gatherRetry = [ sid \in CallSids |-> 0 ]
    /\ completed = [ sid \in CallSids |-> 0 ]
    /\ turnLog = [ sid \in CallSids |-> <<>> ]
    /\ bridge = << >>
    /\ hooks = [ s \in HookSlots |-> HookIdle ]

HookNext ==
    \E s \in HookSlots :
        \/ \E sid \in CallSids, a \in AnsweredBys : AnsweredReceive(s, sid, a)
        \/ \E o \in TtsOutcomes, t \in BOOLEAN : AnsweredTtsReturn(s, o, t)
        \/ \E ok \in BOOLEAN : AnsweredErrLogged(s, ok)
        \/ \E ok \in BOOLEAN : AnsweredLogged(s, ok)
        \/ \E ok \in BOOLEAN : AnsweredCatchLogged(s, ok)
        \/ \E sid \in CallSids : IncomingReceive(s, sid)
        \/ \E o \in TtsOutcomes : IncomingTtsReturn(s, o)
        \/ \E ok \in BOOLEAN, t \in BOOLEAN : IncomingLogged(s, ok, t)
        \/ \E ok \in BOOLEAN : IncomingCatchLogged(s, ok)
        \/ \E sid \in CallSids, cs \in CallStatuses, a \in AnsweredBys :
              StatusReceive(s, sid, cs, a)
        \/ \E ok \in BOOLEAN : StatusLogged(s, ok)
        \/ \E ok \in BOOLEAN : SmsReturn(s, ok)
        \/ \E ok \in BOOLEAN : SmsLogged(s, ok)
        \/ \E ok \in BOOLEAN : SmsErrorLogged(s, ok)

HookSpec == HookInit /\ [][HookNext]_vars

\* ------------------------------------------------------------------------
\* Properties of the call lifecycle webhooks
\* ------------------------------------------------------------------------
HookDone(h, route) == h.route = route /\ h.pc = "done"

HasVerb(doc, verb) == \E i \in 1..Len(doc) : doc[i].verb = verb

\* some step of the invocation in slot s can be taken
HookStep(s) ==
    \/ \E o \in TtsOutcomes, t \in BOOLEAN : AnsweredTtsReturn(s, o, t)
    \/ \E ok \in BOOLEAN : AnsweredErrLogged(s, ok)
    \/ \E ok \in BOOLEAN : AnsweredLogged(s, ok)
    \/ \E ok \in BOOLEAN : AnsweredCatchLogged(s, ok)
    \/ \E o \in TtsOutcomes : IncomingTtsReturn(s, o)
    \/ \E ok \in BOOLEAN, t \in BOOLEAN : IncomingLogged(s, ok, t)
    \/ \E ok \in BOOLEAN : IncomingCatchLogged(s, ok)

C26_SmsIffCompletedUnknown ==
    \A s \in DOMAIN hooks :
        LET h == hooks[s]
        IN HookDone(h, "status") =>
             /\ h.status = 200
             /\ h.smsCalls = 1 <=> (h.CallStatus = "completed" /\ h.AnsweredBy = "unknown")

C31_EvenHistoryBetweenTurns ==
    /\ \A sid \in CallSids :
          (\A s \in DOMAIN inv : InFlight(s) => inv[s].CallSid # sid)
             => \/ sid \notin DOMAIN callHistories
                \/ LET n == Len(callHistories[sid].history)
                   IN /\ n % 2 = 0
                      /\ n >= 2
                      /\ n <= 2 * (MAX_CONVERSATION_TURNS - 1)
    /\ \A s \in DOMAIN inv :
          inv[s].pc # "idle" => Len(inv[s].currentHistory) % 2 = 0

\* the ninth turn ended with a continue directive: eighteen records stored
C31_Witness ==
    \E s \in DOMAIN inv :
        /\ Done(inv[s]) /\ Act(inv[s]) = "continue"
        /\ inv[s].CallSid \in DOMAIN callHistories
        /\ Len(callHistories[inv[s].CallSid].history) = 2 * (MAX_CONVERSATION_TURNS - 1)

\* ------------------------------------------------------------------------
\* Requests whose retry parameter is not the one of the last directive
\* ------------------------------------------------------------------------
\* largest value of the retry parameter of a request
MaxRetryParam == 3

RetryParamSdkResults == { [kind |-> "text", raw |-> <<"ok">>],
                          [kind |-> "text", raw |-> <<"ok", SP, HANGUPNOW>>] }

\* a webhook of the call with speech and any retry parameter, or without
\* speech and the retry parameter of the <Gather> that ran
RetryParamDeliver(s, sid, SpeechResult, retry) ==
    /\ \A o \in DOMAIN inv : InFlight(o) => inv[o].CallSid # sid
    /\ SpeechResult = <<>> => retry = gatherRetry[sid]
    /\ HandleSpeech(s, sid, SpeechResult, retry, FALSE)

RetryParamNext ==
    \E s \in DOMAIN inv :
        \/ \E sid \in CallSids, sp \in Speeches, retry \in 0..MaxRetryParam :
              RetryParamDeliver(s, sid, sp, retry)
        \/ RetryLogged(s, TRUE)
        \/ \E sdk \in RetryParamSdkResults : LlmReturn(s, sdk)
        \/ TtsReturn(s, "ok", FALSE)
        \/ TurnLogged(s, TRUE)

RetryParamSpec == Init /\ [][RetryParamNext]_vars

\* C37: an invocation with non-empty SpeechResult never takes the retry
\* branch, whatever its retry parameter: it calls the generation step once
\* with that speech as the utterance, its directive is never a retry
\* directive, and when it answers continue the turn is completed with the
\* speech as the user record of the turn.
C37_SpeechNeverRetries ==
    \A s \in DOMAIN inv :
        LET r == inv[s]
            n == Len(r.currentHistory)
        IN (r.pc # "idle" /\ r.SpeechResult # <<>>) =>
              /\ r.pc # "retry_log"
              /\ r.llmCalls = 1
              /\ r.speechResult = r.SpeechResult
              /\ Done(r) => Act(r) \in {"continue", "terminate"}
              /\ Generated(r) => r.updatedHistory[n + 1] = UserRecord(r.SpeechResult)
              /\ (Done(r) /\ Act(r) = "continue")
                    => Len(HistoryOf(callHistories, r.CallSid)) = n + 2

\* speech received at turn 2 with a retry parameter above MAX_RETRIES
\* completed the turn
C37_Witness ==
    \E s \in DOMAIN inv :
        /\ Done(inv[s]) /\ Act(inv[s]) = "continue"
        /\ inv[s].SpeechResult # <<>>
        /\ inv[s].currentRetry = MaxRetryParam
        /\ inv[s].turnNumber = 2

\* ------------------------------------------------------------------------
\* Further properties of the transcription bridge
\* ------------------------------------------------------------------------
\* C32: a start message without callSid or without streamSid makes one error
\* record, keyed by the callSid the bridge holds, and changes nothing else:
\* the connection stays open and callSid and streamSid keep their values,
\* also when the message has one of the two.
C32_BadStartMessage ==
    [][\A c \in DOMAIN bridge :
          LET b == bridge[c]
              q == bridge'[c]
              message == "Received 'start' event without callSid/streamSid"
          IN (Len(q.errs) = Len(b.errs) + 1 /\ q.errs[Len(q.errs)].message = message) =>
                /\ q = [b EXCEPT !.events = @ + 1,
                                 !.errs = Append(@, ErrRecord(b.callSid, message))]
                /\ q.ws = "OPEN"
                /\ q.callSid = b.callSid /\ q.streamSid = b.streamSid]_vars

\* a valid start, then a start without ids reported under the callSid of the
\* first, then a valid start of another call handled as usual
C32_Witness ==
    \E c \in DOMAIN bridge :
        /\ bridge[c].errs = << ErrRecord("CA1", "Received 'start' event without callSid/streamSid") >>
        /\ bridge[c].callSid = "CA2"
        /\ bridge[c].ws = "OPEN"
        /\ Len(bridge[c].logs) = 2

\* the stop messages whose handler has run to its end
StopLogs(b) == { i \in 1..Len(b.logs) : b.logs[i].event = "twilio_stream_stop" }

\* C33: once the handler of a stop message has completed, a finalize request
\* has been issued to the transcription session of the connection; stated
\* for the sessions that are open at that point or open later, which are
\* the ones that still wait for the end of the audio.
C33_StopRequestsFinalize ==
    \A c \in DOMAIN bridge :
        (StopLogs(bridge[c]) # {} /\ bridge[c].pending["stop"] = 0 /\ bridge[c].dg = 1)
           => bridge[c].finalizes > 0

\* C34: the accumulator is the non-blank final fragments received so far,
\* in order, each followed by one space: it changes only when a fragment
\* marked final arrives and then by appending that fragment and a space, so
\* every earlier value is a prefix of every later one; interim fragments and
\* the connected, start, media, stop, unknown, error and malformed messages
\* leave it as it is.
C34_AccumulatorAppendOnly ==
    \A c \in DOMAIN bridge :
        bridge[c].closedTranscript = JoinFragments(SelectSeq(bridge[c].finals, NonBlank))

\* two final fragments accumulated and one other event (an interim
\* fragment, a blank one or a message) handled on the open connection
C34_Witness ==
    \E c \in DOMAIN bridge :
        /\ bridge[c].closedTranscript = <<"A.", SP, SP, "B.", SP>>
        /\ bridge[c].events = 3
        /\ bridge[c].ws = "OPEN"

\* the session-close records whose write failed
FailedFinalRecords(b) == { i \in FinalRecords(b) : ~b.logs[i].ok }

\* C35: when the write of the session-close record fails, the close handler
\* catches the failure and sends exactly one error record, keyed by the
\* callSid the bridge holds at that moment, to the error log; no rejection
\* leaves a handler of the bridge, also when the write of the error record
\* fails too.
C35_CloseRecordWriteFailure ==
    /\ [](\A c \in DOMAIN bridge :
            LET b == bridge[c]
                message == "Error logging final Deepgram transcript to Firebase"
            IN /\ b.unhandled = 0
               /\ Cardinality(ErrorsOf(b, message)) =
                     IF FailedFinalRecords(b) # {} /\ b.pending["dgclose_fail"] = 0
                     THEN 1 ELSE 0)
    /\ [][\A c \in DOMAIN bridge :
            LET b == bridge[c]
                q == bridge'[c]
                message == "Error logging final Deepgram transcript to Firebase"
            IN (Len(q.errs) = Len(b.errs) + 1 /\ q.errs[Len(q.errs)].message = message) =>
                  /\ b.pending["dgclose_fail"] = 1
                  /\ q.errs = Append(b.errs, ErrRecord(b.callSid, message))]_vars

\* the write of the record of call CA1 failed, the failure was reported
\* once under CA1 and the handler ran to its end
C35_Witness ==
    \E c \in DOMAIN bridge :
        /\ FailedFinalRecords(bridge[c]) # {}
        /\ bridge[c].errs = << ErrRecord("CA1", "Error logging final Deepgram transcript to Firebase") >>
        /\ NoTaskPending(bridge[c])
        /\ bridge[c].ws # "OPEN"

\* the valid start messages logged before position i
StartsBefore(b, i) == { j \in 1..(i - 1) : b.logs[j].event = "twilio_stream_start" }

\* C36: the session-close record is keyed by the callSid and carries the
\* streamSid of the last valid start message handled before the close event
\* of the session, whatever start messages came before it or come after it;
\* when no valid start message was handled before the close event it is
\* keyed by the placeholder callSid and carries the placeholder streamSid.
C36_CloseRecordKey ==
    \A c \in DOMAIN bridge : \A i \in FinalRecords(bridge[c]) :
        LET b == bridge[c]
            starts == StartsBefore(b, i)
            last == CHOOSE j \in starts : \A k \in starts : k <= j
        IN IF starts = {}
           THEN /\ b.logs[i].key = UNKNOWN_CALLSID_WS
                /\ b.logs[i].streamSid = UNKNOWN_STREAMSID_WS
           ELSE /\ b.logs[i].key = b.logs[last].key
                /\ b.logs[i].streamSid = b.logs[last].streamSid

\* starts of CA1 and then CA2 handled, the session closed, its record keyed
\* by CA2
C36_Witness ==
    \E c \in DOMAIN bridge : \E i \in FinalRecords(bridge[c]) :
        /\ i = 3
        /\ bridge[c].logs[1].key = "CA1" /\ bridge[c].logs[2].key = "CA2"
        /\ bridge[c].logs[1].event = "twilio_stream_start"
        /\ bridge[c].logs[2].event = "twilio_stream_start"
        /\ bridge[c].logs[i].key = "CA2" /\ bridge[c].logs[i].streamSid = "MZ1"

C39_SessionCloseClosesConnection ==
    \A c \in DOMAIN bridge :
        LET b == bridge[c]
        IN ( /\ b.dg = 3
             /\ b.pending["dgclose_ok"] = 0 /\ b.pending["dgclose_fail"] = 0
             /\ b.pending["dgclose_errlog"] = 0 )
           => /\ b.ws # "OPEN"
              /\ FinalRecords(b) # {}

\* the write of the record failed, the failure was reported, and the
\* handler closed the connection that was open (code 1011)
C39_Witness ==
    \E c \in DOMAIN bridge :
        /\ bridge[c].dg = 3 /\ NoTaskPending(bridge[c])
        /\ FailedFinalRecords(bridge[c]) # {}
        /\ bridge[c].ws = "CLOSING"
        /\ bridge[c].closeReason = DEEPGRAM_CLOSED_REASON
        /\ bridge[c].media > 0
====
